---- MODULE Spec2Model ----
(***************************************************************************)
(* A model of the document acquisition pipeline of swagger-mcp-server:     *)
(* OptimizedSwaggerApiParser (src/src/optimized-swagger-parser.ts) with    *)
(* its two-tier cache, its UI-URL resolution, its progress reports and its *)
(* strict/lenient parse, as driven by OptimizedSwaggerParserTool.execute.  *)
(*                                                                         *)
(* Strings are sequences of tokens ("http://a", "/", "doc.html", ...), so  *)
(* that includes/indexOf/substring/replace are computed, not assumed.      *)
(* Time is a counter of ticks (Date.now()); progress fractions are         *)
(* percentages (0.15 is 15).  JavaScript runs a callback to its next await *)
(* without interruption: the clock and the file system operations nobody   *)
(* awaits move only where the call waits (TickLabels, SettleLabels).       *)
(*                                                                         *)
(* Beside it, each under a specification of its own: the getSchema calls   *)
(* that follow a fetch (SpecSchemas), the TemplateManager with its custom  *)
(* directory (SpecTemplates), the TemplateEngine (SpecEngine) and the two  *)
(* code generators with their output directory (SpecGenerators).           *)
(***************************************************************************)
EXTENDS Integers, Sequences, FiniteSets, TLC

VARIABLES
  now,            \* Date.now(), in ticks
  cache,          \* OptimizedSwaggerApiParser.cache: key -> CacheItem
                  \*   [timestamp, data] and, for the record, stored and old
  cacheFiles,     \* the files of cacheDir: key -> [mtimeMs, data, old]
  dirExists,      \* whether cacheDir exists on disk
  mkdirPending,   \* an ensureCacheDir() started by a constructor, not yet settled
  readdirPending, \* the fs.readdir of clearCache() not yet settled
  unlinkPending,  \* the fs.unlink calls started by clearCache, not yet settled
  parser,         \* the fields of the parser instance in use
  pc,             \* position of the fetchApi call in flight
  call,           \* the locals of the fetchApi call in flight
  trace,          \* what the call did so far: reports, probes, attempts, parses
  result,         \* what the last call returned or threw
  cleared,        \* URLs passed to clearCache(url) and not fetched since
  clears,         \* the number of clearCache calls so far
  prev,           \* the fetch before this one, when it acquired and cached
  builtInTemplates, \* TemplateManager.builtInTemplates
  customTemplates,  \* TemplateManager.customTemplates
  templateFiles,    \* the template body files of the custom directory
  customConfig,     \* the manifest templates.json of the custom directory
  tmCall,           \* the last saveCustomTemplate / deleteCustomTemplate call
  options,          \* TemplateEngine.options
  partials,         \* TemplateEngine.partials: name -> template
  rendered,         \* the last render call: its arguments and its outcome
  document,         \* the document found at swaggerUrl
  outputFiles,      \* the files of the output directory: name -> content
  generation,       \* the last generate call: what it was given and returned
  applied,          \* the last call of a helper of the generators
  sinkCall,         \* a fetchApi call of a new parser, run as a whole
  loading           \* TemplateManager.initialized and the initialize calls

parserVars == <<now, cache, cacheFiles, dirExists, mkdirPending,
                readdirPending, unlinkPending, parser, pc, call, trace,
                result, cleared, clears, prev>>

templateVars == <<builtInTemplates, customTemplates, templateFiles,
                  customConfig, tmCall>>

engineVars == <<options, partials, rendered>>

generatorVars == <<document, outputFiles, generation, applied>>

sinkVars == <<sinkCall>>

loaderVars == <<loading>>

\* the variables the parser never touches
outsideParser == <<templateVars, engineVars, generatorVars, sinkVars,
                   loaderVars>>

\* the variables the template manager never touches
outsideTemplates == <<parserVars, engineVars, generatorVars, sinkVars,
                      loaderVars>>

\* the variables the template engine never touches
outsideEngine == <<parserVars, templateVars, generatorVars, sinkVars,
                   loaderVars>>

\* the variables the generators never touch
outsideGenerators == <<parserVars, templateVars, engineVars, sinkVars,
                       loaderVars>>

vars == <<parserVars, templateVars, engineVars, generatorVars, sinkVars,
          loaderVars>>

-----------------------------------------------------------------------------
(* Bounds of the model *)

MaxTime == 3
MaxClears == 1
cacheTTL == 2
MaxItems == 2
MaxDepth == 3
MaxEntries == 2
MaxStack == 6
MaxNames == 2
MaxCalls == 2
MaxInits == 3

-----------------------------------------------------------------------------
(* Strings as token sequences *)

Includes(s, pat) ==
  \E i \in 1..(Len(s) - Len(pat) + 1) : SubSeq(s, i, i + Len(pat) - 1) = pat

\* String.prototype.indexOf, 1-based; 0 when absent
IndexOf(s, pat) ==
  IF Includes(s, pat)
    THEN CHOOSE i \in 1..(Len(s) - Len(pat) + 1) :
           /\ SubSeq(s, i, i + Len(pat) - 1) = pat
           /\ \A j \in 1..(i - 1) : SubSeq(s, j, j + Len(pat) - 1) # pat
    ELSE 0

\* String.prototype.lastIndexOf, 1-based; 0 when absent
LastIndexOf(s, pat) ==
  IF Includes(s, pat)
    THEN CHOOSE i \in 1..(Len(s) - Len(pat) + 1) :
           /\ SubSeq(s, i, i + Len(pat) - 1) = pat
           /\ \A j \in (i + 1)..(Len(s) - Len(pat) + 1) :
                SubSeq(s, j, j + Len(pat) - 1) # pat
    ELSE 0

\* String.prototype.replace with a string pattern: the first occurrence only
Replace(s, pat, rep) ==
  LET i == IndexOf(s, pat)
  IN IF i = 0 THEN s
     ELSE SubSeq(s, 1, i - 1) \o rep \o SubSeq(s, i + Len(pat), Len(s))

\* url.startsWith('http'): the scheme is part of the first token
StartsWithHttp(s) == Len(s) > 0 /\ s[1] \in {"http://a"}

\* baseUrl.split('#')[0]
BeforeHash(s) ==
  LET i == IndexOf(s, <<"#">>) IN IF i = 0 THEN s ELSE SubSeq(s, 1, i - 1)

-----------------------------------------------------------------------------
(* The document references the callers use *)

UrlDoc     == <<"http://a", "/", "v3", "/", "api-docs">>
UrlFile    == <<"petstore.json">>
UrlDocHtml == <<"http://a", "/", "doc.html">>

NoHeaders   == <<>>
AuthHeaders == <<"Authorization:t">>

\* JSON.stringify(headers)
Stringify(headers) == <<"{">> \o headers \o <<"}">>

\* crypto md5 digest: a one-way function, taken to be collision free
md5(s) == [md5 |-> s]

\* getCacheKey(): digest of url + JSON.stringify(headers)
getCacheKey(url, headers) == md5(url \o Stringify(headers))

\* the key clearCache(url) computes for its argument
clearCacheKey(url) == md5(url)

-----------------------------------------------------------------------------
(* resolveSwaggerDocUrl: the pure part *)

\* the first guard: the URL already names the machine-readable document
IsDocUrl(url) ==
  \/ Includes(url, <<"/", "api-docs">>)
  \/ Includes(url, <<"/", "swagger.json">>)

\* the second guard: the URL names a Swagger UI page
IsUiUrl(url) ==
  \/ Includes(url, <<"doc.html">>)
  \/ Includes(url, <<"swagger-ui.html">>)
  \/ Includes(url, <<"swagger-ui", "/">>)
  \/ Includes(url, <<"swagger", "/", "index.html">>)

baseUrl(url) ==
  LET raw == IF Includes(url, <<"swagger-ui", "/">>)
               THEN SubSeq(url, 1, IndexOf(url, <<"swagger-ui", "/">>) - 1)
             ELSE IF Includes(url, <<"swagger", "/">>)
               THEN SubSeq(url, 1, IndexOf(url, <<"swagger", "/">>) - 1)
             ELSE SubSeq(url, 1, LastIndexOf(url, <<"/">>) - 1)
  IN IF Includes(raw, <<"#">>) THEN BeforeHash(raw) ELSE raw

possibleEndpoints(url) ==
  LET b == baseUrl(url) IN
  << b \o <<"/", "v3", "/", "api-docs">>,
     b \o <<"/", "v2", "/", "api-docs">>,
     b \o <<"/", "api-docs">>,
     b \o <<"/", "swagger", "/", "v3", "/", "api-docs">>,
     b \o <<"/", "swagger", "/", "v2", "/", "api-docs">>,
     b \o <<"/", "swagger", "/", "api-docs">>,
     Replace(url, <<"swagger-ui", "/", "index.html">>, <<"v3", "/", "api-docs">>),
     Replace(url, <<"swagger-ui.html">>, <<"v3", "/", "api-docs">>),
     Replace(url, <<"doc.html">>, <<"v3", "/", "api-docs">> ) >>

\* what a probe can answer: the request fails (failed), or it carries data;
\* the data is falsy (~truthy) or has the three fields the check reads
ProbeResponses ==
  { r \in [failed : BOOLEAN, truthy : BOOLEAN, swagger : BOOLEAN,
           openapi : BOOLEAN, paths : 0..1] :
      /\ r.failed => ~r.truthy
      /\ ~r.truthy => (~r.swagger /\ ~r.openapi /\ r.paths = 0) }

\* response.data && (data.swagger || data.openapi ||
\*                   (data.paths && Object.keys(data.paths).length > 0))
IsPlausible(data) ==
  /\ data.truthy
  /\ (data.swagger \/ data.openapi \/ data.paths > 0)

-----------------------------------------------------------------------------
(* Parser instances *)

\* A raw document is named by the time it was acquired from its source:
\* the source may change at any time, so two acquisitions at different
\* times are taken to give different documents.
NoDoc == -1

\* the options the callers construct parsers with: a document URL with
\* caching on, lazy (the default) and eager; a local file with headers,
\* eager without validation; a UI page
Option(url, headers, skipValidation, useCache, lazyLoading) ==
  [url |-> url, headers |-> headers, skipValidation |-> skipValidation,
   useCache |-> useCache, lazyLoading |-> lazyLoading]

ParserOptions ==
  { Option(UrlDoc, NoHeaders, FALSE, TRUE, l) : l \in BOOLEAN }
  \cup { Option(UrlFile, AuthHeaders, TRUE, FALSE, FALSE),
         Option(UrlDocHtml, NoHeaders, FALSE, FALSE, FALSE) }

\* the URLs clearCache(url) is called with
ClearUrls == {UrlDoc}

\* before the first instance is built
NoOptions == [url |-> <<>>, headers |-> NoHeaders, skipValidation |-> FALSE,
              useCache |-> FALSE, lazyLoading |-> FALSE]

\* the names of the schema section (components.schemas) of the raw documents,
\* the names getSchema is asked for, and the property names every plain
\* object inherits from Object.prototype
RawSchemas == {"Pet"}
SchemaNames == {"Pet", "Cat", "constructor"}
ObjectPrototype == {"constructor", "toString"}

\* obj[name] for a plain object with the own keys `keys`: the own value, the
\* inherited one, or undefined
Property(keys, name) ==
  IF name \in keys THEN "schema"
  ELSE IF name \in ObjectPrototype THEN "inherited"
  ELSE "undefined"

\* the own keys of api.components.schemas after fetchApi: parseApiLite builds
\* the skeleton with "schemas: {}", the eager parse keeps the document's
ParsedSchemas(lazyLoading) == IF lazyLoading THEN {} ELSE RawSchemas

\* constructor: the fields of a new instance
NewInstance(o) ==
  [url |-> o.url, headers |-> o.headers, skipValidation |-> o.skipValidation,
   useCache |-> o.useCache, lazyLoading |-> o.lazyLoading,
   api |-> NoDoc, rawApiData |-> NoDoc, schemas |-> {}]

Key == getCacheKey(parser.url, parser.headers)

\* the TTL test of both tiers: Date.now() - t < cacheTTL
IsFreshReversed(t) == now - t > cacheTTL
IsFresh(t) == now - t < cacheTTL

-----------------------------------------------------------------------------
(* Finite maps *)

Put(f, k, v) == (k :> v) @@ f
Remove(f, k) == [x \in DOMAIN f \ {k} |-> f[x]]
EmptyMap == [x \in {} |-> 0]

-----------------------------------------------------------------------------
(* The fetchApi call in flight *)

NoCall == [resolved |-> <<>>, idx |-> 0, apiData |-> NoDoc, error |-> ""]

\* what is recorded of a call: the fractions given to the progress sink, the
\* endpoints probed, the acquisitions of the primary document, the parser
\* runs, where the raw document came from (served), when the cache entry
\* served was first stored (servedStored: saveToCache's Date.now() for the
\* memory tier, the file's mtime for the file tier and for its copies in
\* memory), whether it was in the cache before the last clearCache()
\* (servedOld), cache I/O failures and cache writes, the start of the call,
\* and whether clearCache(url) was called for its URL since the last fetch
\* of that URL
NoTrace ==
  [progress |-> <<>>, probes |-> <<>>, attempts |-> 0, parses |-> <<>>,
   served |-> "none", servedStored |-> 0, servedOld |-> FALSE,
   sourceDoc |-> NoDoc, ioFailed |-> FALSE, cacheWrites |-> 0,
   started |-> 0, wasCleared |-> FALSE]

\* the last getSchema call on the instance: the name asked, the value
\* returned, whether SwaggerParser.parse ran, and the own keys of
\* api.components.schemas before the call
NoLookup == [name |-> "", value |-> "none", parsed |-> FALSE, before |-> {}]

NoResult == [status |-> "none", doc |-> NoDoc, message |-> <<>>,
             schema |-> NoLookup]
NoPrev == [key |-> md5(<<>>), end |-> 0, doc |-> NoDoc,
           sameInstance |-> FALSE]

\* reportProgress: the sink gets the fraction
reportProgress(t, fraction) == [t EXCEPT !.progress = Append(@, fraction)]

\* the report of the catch block of fetchApi
catchProgressNone(t) == t
catchProgress(t) == reportProgress(t, 100)

\* where the call goes when the primary acquisition throws: the Error is
\* thrown to the catch block of fetchApi
OnAcquireErrorRetry == "acquire"
OnAcquireError == "catch"

\* where the call goes when fs.stat, fs.readFile or JSON.parse of the cache
\* file throws: the empty catch of getFromCache, then "return null"
OnCacheReadErrorThrow == "catch"
OnCacheReadError == "acquireStart"

\* where the call goes when SwaggerParser.validate throws: the fallback
OnValidateErrorThrow == "catch"
OnValidateError == "parse"

\* the record of a finished call kept for the next one: set when the call
\* acquired the document from its source with caching enabled
PrevAfter(t, c) ==
  IF parser.useCache /\ t.served = "source"
    THEN [key |-> Key, end |-> now, doc |-> c.apiData, sameInstance |-> TRUE]
    ELSE NoPrev


-----------------------------------------------------------------------------
(* The template manager: TemplateManager (src/src/templates/template-manager.ts) *)

\* a template: its identifier, its type (the metadata kept here), the path
\* of its body file relative to its directory, its body
Template(id, type, path, content, isBuiltIn) ==
  [id |-> id, type |-> type, path |-> path, content |-> content,
   isBuiltIn |-> isBuiltIn]

\* the path saveCustomTemplate gives the body file of a template
relativePath(type, id) ==
  IF type = "api-client" THEN <<"api-client", "/", id, ".tpl">>
  ELSE IF type = "typescript-types" THEN <<"typescript-types", "/", id, ".tpl">>
  ELSE IF type = "config-file" THEN <<"config", "/", id, ".tpl">>
  ELSE <<id, ".tpl">>

\* what loadBuiltInTemplates loaded from the built-in manifest
BuiltIn ==
  << Template("fetch-client", "api-client",
              relativePath("api-client", "fetch-client"), "built-in", TRUE),
     Template("axios-config", "config-file",
              relativePath("config-file", "axios-config"), "built-in", TRUE) >>

\* what the callers save and delete
TemplateIds == {"fetch-client", "my-client", "my-types"}
TemplateTypes == {"api-client", "typescript-types"}
TemplateContents == {"v1", "v2"}

NoTmCall == [op |-> "none", id |-> "", status |-> "none", message |-> ""]

\* getAllTemplates: the built-in templates, then the custom ones
getAllTemplates == builtInTemplates \o customTemplates

\* Array.prototype.findIndex on the id; 0 when there is none
FindIndex(templates, id) ==
  IF \E i \in 1..Len(templates) : templates[i].id = id
    THEN CHOOSE i \in 1..Len(templates) :
           /\ templates[i].id = id
           /\ \A j \in 1..(i - 1) : templates[j].id # id
    ELSE 0

\* Array.prototype.filter(t => t.id !== id)
WithoutId(templates, id) ==
  SelectSeq(templates, LAMBDA t : t.id # id)

\* the manifest entry of a template: the template without its content
ConfigEntry(t) == [id |-> t.id, type |-> t.type, path |-> t.path]

\* updateCustomTemplatesConfig: what is written to the manifest
ConfigData(templates) ==
  [i \in 1..Len(templates) |-> ConfigEntry(templates[i])]

\* the manager after initialize() on a custom directory with an empty
\* manifest
\* an initialize call: where it is, and the manifest entry it loads next
NoInitialize == [pc |-> "none", at |-> 0]

\* a manager whose initialize() has returned, no call in flight
Loaded ==
  [initialized |-> TRUE, calls |-> [c \in 1..MaxCalls |-> NoInitialize],
   started |-> 0, overlapped |-> FALSE, thrown |-> FALSE]

InitTemplates ==
  /\ builtInTemplates = BuiltIn
  /\ customTemplates = <<>>
  /\ templateFiles = EmptyMap
  /\ customConfig = <<>>
  /\ tmCall = NoTmCall
  /\ loading = Loaded

-----------------------------------------------------------------------------
(* The template engine: src/unnamed/part_006, class TemplateEngine.         *)
(* A template is a sequence of pieces: runs of plain text and tags.  A tag  *)
(* is what one of the engine's regular expressions matches between '{' and  *)
(* '}'; its path is the sequence of the parts between the dots.  The        *)
(* strings of a context hold plain text, no tag.                            *)

Text(s)        == [tag |-> "text", arg |-> <<s>>]
Variable(path) == [tag |-> "var", arg |-> path]     \* {path}
IfOpen(path)   == [tag |-> "?", arg |-> path]       \* {?path}
LoopOpen(path) == [tag |-> "#", arg |-> path]       \* {#path}
Close(path)    == [tag |-> "/", arg |-> path]       \* {/path}
Include(name)  == [tag |-> ">", arg |-> <<name>>]   \* {>name}

\* the comment processPartials puts in the place of a partial it cannot find
NotFound(name) == [tag |-> "notfound", arg |-> name]

\* the RangeError of a call stack that is exhausted
RangeError == [tag |-> "throw", arg |-> <<"RangeError">>]

\* the values of a context and what String(value) makes of them
Undefined == [kind |-> "undefined", text |-> "undefined", items |-> <<>>,
              fields |-> EmptyMap]
Str(s)    == [kind |-> "string", text |-> s, items |-> <<>>,
              fields |-> EmptyMap]
Digits    == <<"0", "1", "2", "3", "4">>
Num(i)    == [kind |-> "number", text |-> Digits[i + 1], items |-> <<>>,
              fields |-> EmptyMap]
Bool(b)   == [kind |-> "boolean", text |-> IF b THEN "true" ELSE "false",
              items |-> <<>>, fields |-> EmptyMap]
Arr(list) == [kind |-> "array", text |-> "[array]", items |-> list,
              fields |-> EmptyMap]
Obj(map)  == [kind |-> "object", text |-> "[object Object]", items |-> <<>>,
              fields |-> map]

\* the items of the sequences the loops run over: a mapping with the field
\* name, and a scalar
LoopItems == {Obj([name |-> Str("inner")]), Str("scalar")}

ItemLists == UNION {[1..n -> LoopItems] : n \in 0..MaxItems}

\* the contexts handed to render
Contexts ==
  {[name |-> Str("outer"), items |-> Arr(list)] : list \in ItemLists}
    \cup {[name |-> Str(""), items |-> Str("text")],
          [user |-> Obj([name |-> Str("deep")])]}

PartialNames == {"p", "q"}

\* the bodies registered as partials: empty, plain, and one that includes q
PartialBodies ==
  {<<>>,
   <<Text("hi"), Variable(<<"name">>)>>,
   <<Text("q:"), Include("q")>>}

\* the templates handed to render
Templates ==
  {<<Text("a"), Include("p"), Text("b")>>,
   <<LoopOpen(<<"items">>), Text("["), Variable(<<"@index">>),
     Variable(<<"@first">>), Variable(<<"@last">>), Variable(<<"name">>),
     Text("]"), Close(<<"items">>), Text("end")>>,
   <<Variable(<<"name">>), Variable(<<"missing">>),
     Variable(<<"user", "name">>), Variable(<<"missing", "name">>)>>,
   <<IfOpen(<<"name">>), Text("yes"), Close(<<"name">>),
     IfOpen(<<"items">>), Text("some"), Close(<<"items">>)>>,
   <<LoopOpen(<<"name">>), Text("x"), Close(<<"name">>), Text("end")>>,
   <<LoopOpen(<<"items">>), IfOpen(<<"@first">>), Text("F"),
     Close(<<"@first">>), Text("x"), Close(<<"items">>)>>}

NoRender == [template |-> <<>>, context |-> EmptyMap, status |-> "none",
             output |-> <<>>]

\* an engine constructed with the default options, no partial registered
InitEngine ==
  /\ options = [preserveUnmatched |-> FALSE]
  /\ partials = EmptyMap
  /\ rendered = NoRender

-----------------------------------------------------------------------------
(* The generators: src/src/generators/code-generator.ts, class              *)
(* TypeScriptTypesGenerator, and src/src/generators/api-client-generator.ts,*)
(* class ApiClientGenerator.  Names are sequences of characters, so that    *)
(* the formatting of file names works on what the names are made of.  A     *)
(* document holds its references as '$ref', the way SwaggerParser.parse     *)
(* leaves them.                                                             *)

\* the letters the names are written in, each with its upper case
CasePairs == {<<"p", "P">>, <<"e", "E">>, <<"t", "T">>, <<"a", "A">>,
              <<"g", "G">>, <<"n", "N">>, <<"o", "O">>, <<"d", "D">>}
LowerCase == {c[1] : c \in CasePairs}
UpperCase == {c[2] : c \in CasePairs}
DigitChars == {"0", "1", "2"}
toLowerCase(c) ==
  IF c \in UpperCase THEN (CHOOSE p \in CasePairs : p[2] = c)[1] ELSE c
toUpperCase(c) ==
  IF c \in LowerCase THEN (CHOOSE p \in CasePairs : p[1] = c)[2] ELSE c

\* [a-zA-Z0-9_-]
IsNameChar(c) == c \in LowerCase \cup UpperCase \cup DigitChars \cup {"_", "-"}

NamePet      == <<"P", "e", "t">>
NameLowerPet == <<"p", "e", "t">>
NameTag      == <<"T", "a", "g">>
NameNode     == <<"N", "o", "d", "e">>
NameConstructor == <<"constructor">>
TagPet       == <<"p", "e", "t">>
TagTag       == <<"t", "a", "g">>
\* two tags written in Chinese characters, by their code points
TagUsers     == <<"U+7528", "U+6237">>
TagOrders    == <<"U+8BA2", "U+5355">>

\* schema objects: a reference, a string, an object with its property
\* schemas, an array with its item schema, and null where a schema should be
RefTo(name)     == [ref |-> name, type |-> "", sub |-> <<>>]
StringSchema    == [ref |-> <<>>, type |-> "string", sub |-> <<>>]
NullSchema      == [ref |-> <<>>, type |-> "null", sub |-> <<>>]
ObjectOf(props) == [ref |-> <<>>, type |-> "object", sub |-> props]
ArrayOf(item)   == [ref |-> <<>>, type |-> "array", sub |-> <<item>>]

\* a member every plain object inherits from Object.prototype
InheritedMember == [ref |-> <<>>, type |-> "function", sub |-> <<>>]

Entry(name, schema) == [name |-> name, schema |-> schema]
Operation(tags, parameters, requestBody, responses) ==
  [tags |-> tags, parameters |-> parameters, requestBody |-> requestBody,
   responses |-> responses, path |-> <<>>]

\* an operation found under a path, the path given by its segments:
\* path.split('/').filter(Boolean)
At(path, operation) == [operation EXCEPT !.path = path]

\* components.schemas in the order of its keys, and the operations of paths
DocPlain ==
  [schemas |-> <<Entry(NamePet, ObjectOf(<<StringSchema, RefTo(NameTag)>>)),
                 Entry(NameTag, ObjectOf(<<StringSchema>>))>>,
   operations |-> <<Operation(<<TagPet>>, <<StringSchema>>, <<>>,
                              <<RefTo(NamePet)>>),
                    Operation(<<TagTag>>, <<>>, <<RefTo(NameTag)>>,
                              <<ArrayOf(RefTo(NameTag))>>)>>]

\* a schema with a property that references its own name
DocSelf ==
  [schemas |-> <<Entry(NameNode, ObjectOf(<<RefTo(NameNode)>>)),
                 Entry(NameTag, ObjectOf(<<StringSchema>>))>>,
   operations |-> <<Operation(<<TagPet>>, <<>>, <<>>, <<RefTo(NameNode)>>),
                    Operation(<<TagTag>>, <<>>, <<>>, <<RefTo(NameTag)>>)>>]

\* names that differ in what formatting drops or folds
DocClash ==
  [schemas |-> <<Entry(NamePet, ObjectOf(<<StringSchema>>)),
                 Entry(NameLowerPet, StringSchema)>>,
   operations |-> <<Operation(<<TagUsers>>, <<>>, <<>>, <<RefTo(NamePet)>>),
                    Operation(<<TagOrders>>, <<>>, <<>>,
                              <<RefTo(NameLowerPet)>>)>>]

\* a document that failed validation: a property without a schema
DocBroken ==
  [schemas |-> <<Entry(NamePet, ObjectOf(<<NullSchema>>)),
                 Entry(NameTag, ObjectOf(<<StringSchema>>))>>,
   operations |-> <<Operation(<<>>, <<>>, <<>>, <<RefTo(NameTag)>>)>>]

DocEmpty == [schemas |-> <<>>, operations |-> <<>>]

Documents == {DocPlain, DocSelf, DocClash, DocBroken, DocEmpty}

NoGeneration ==
  [generator |-> "none", status |-> "none", success |-> FALSE, files |-> <<>>,
   warnings |-> <<>>, error |-> "", retained |-> <<>>, emptyBefore |-> TRUE,
   failed |-> 0, clientType |-> "", useCache |-> FALSE, fetches |-> 0]

\* no helper called yet
NoApplication ==
  [function |-> "none", schemas |-> <<>>, includeSchemas |-> <<>>,
   excludeSchemas |-> <<>>, operations |-> <<>>, groupBy |-> "",
   after |-> <<>>, result |-> <<>>, threw |-> FALSE]

\* nothing generated yet, the output directory empty
InitGeneratorState ==
  /\ outputFiles = EmptyMap
  /\ generation = NoGeneration
  /\ applied = NoApplication

\* no call run as a whole yet
NoSinkCall ==
  [called |-> FALSE, env |-> <<>>, sink |-> <<>>,
   outcome |-> [returned |-> FALSE, origin |-> "none"]]

-----------------------------------------------------------------------------
(* Initial state: an empty cache, no cache directory, no parser built yet *)

InitFetcher ==
  /\ now = 0
  /\ cache = EmptyMap
  /\ cacheFiles = EmptyMap
  /\ dirExists = FALSE
  /\ mkdirPending = FALSE
  /\ readdirPending = FALSE
  /\ unlinkPending = {}
  /\ parser = NewInstance(NoOptions)
  /\ pc = "idle"
  /\ call = NoCall
  /\ trace = NoTrace
  /\ result = NoResult
  /\ cleared = {}
  /\ clears = 0
  /\ prev = NoPrev

InitParser == InitFetcher /\ sinkCall = NoSinkCall

Init ==
  /\ InitParser
  /\ InitTemplates
  /\ InitEngine
  /\ InitGeneratorState
  /\ document = DocEmpty

Idle == pc = "idle"

\* where the clock is let advance: between calls, and while the call waits
\* for the write of the cache file (the file's mtime is then later than the
\* timestamp of the memory entry)
TickLabels == {"idle", "writeFile"}

\* where the file system operations nobody awaits are let settle: between
\* calls and at the awaits where the call reads or writes the file tier
\* (they commute with the steps of the call that do not touch the tiers)
SettleLabels == {"idle", "stat", "readFile", "writeFile"}

tiers    == <<cache, cacheFiles>>
fsOps    == <<dirExists, mkdirPending, readdirPending, unlinkPending>>
callVars == <<parser, pc, call, trace, result>>
hist     == <<cleared, clears, prev>>

-----------------------------------------------------------------------------
(* The environment: the clock and the file system operations nobody awaits *)

Tick ==
  /\ pc \in TickLabels
  /\ now < MaxTime
  /\ now' = now + 1
  /\ UNCHANGED <<tiers, fsOps, callVars, hist>>
  /\ UNCHANGED outsideParser

\* ensureCacheDir: fs.mkdir(cacheDir, {recursive: true}) settles; an error is
\* logged and dropped
MkdirDone(ok) ==
  /\ pc \in SettleLabels
  /\ mkdirPending
  /\ mkdirPending' = FALSE
  /\ dirExists' = (dirExists \/ ok)
  /\ UNCHANGED <<now, tiers, readdirPending, unlinkPending, callVars, hist>>
  /\ UNCHANGED outsideParser

\* clearCache(url): the memory entry of md5(url) is deleted, the unlink of
\* its file is started and not awaited
ClearCacheUrl(url) ==
  /\ Idle
  /\ clears < MaxClears
  /\ clears' = clears + 1
  /\ cache' = Remove(cache, clearCacheKey(url))
  /\ unlinkPending' = unlinkPending \cup {clearCacheKey(url)}
  /\ cleared' = cleared \cup {url}
  /\ prev' = NoPrev
  /\ UNCHANGED <<now, cacheFiles, dirExists, mkdirPending, readdirPending,
                 callVars>>
  /\ UNCHANGED outsideParser

\* clearCache(): the memory map is emptied, the readdir is started and not
\* awaited; the files there at the call are marked old
ClearCacheAll ==
  /\ Idle
  /\ clears < MaxClears
  /\ clears' = clears + 1
  /\ cache' = EmptyMap
  /\ readdirPending' = TRUE
  /\ cacheFiles' = [k \in DOMAIN cacheFiles |->
                      [cacheFiles[k] EXCEPT !.old = TRUE]]
  /\ prev' = NoPrev
  /\ UNCHANGED <<now, dirExists, mkdirPending, unlinkPending, callVars,
                 cleared>>
  /\ UNCHANGED outsideParser

\* the readdir of clearCache() settles: one unlink per file listed is started
ReaddirDone(ok) ==
  /\ pc \in SettleLabels
  /\ readdirPending
  /\ readdirPending' = FALSE
  /\ unlinkPending' = unlinkPending \cup
                        (IF ok /\ dirExists THEN DOMAIN cacheFiles ELSE {})
  /\ UNCHANGED <<now, tiers, dirExists, mkdirPending, callVars, hist>>
  /\ UNCHANGED outsideParser

\* one unlink settles; its error is dropped
UnlinkDone(k, ok) ==
  /\ pc \in SettleLabels
  /\ k \in unlinkPending
  /\ unlinkPending' = unlinkPending \ {k}
  /\ cacheFiles' = IF ok THEN Remove(cacheFiles, k) ELSE cacheFiles
  /\ UNCHANGED <<now, cache, dirExists, mkdirPending, readdirPending,
                 callVars, hist>>
  /\ UNCHANGED outsideParser

-----------------------------------------------------------------------------
(* fetchApi, from its call to its first await *)

Succeed(t) ==
  /\ parser' = [parser EXCEPT !.api = call.apiData,
                               !.schemas = ParsedSchemas(parser.lazyLoading)]
  /\ trace' = reportProgress(t, 100)
  /\ result' = [NoResult EXCEPT !.status = "ok", !.doc = call.apiData]
  /\ pc' = "done"
  /\ prev' = PrevAfter(t, call)

\* fetchApi(forceRefresh) on the instance p: the memoized model is
\* returned, or the call starts: parseApiLite reports 0.6 before it fetches
\* (lazy), and fetchRawApiData returns the memoized raw document when there
\* is one
Begin(p, forceRefresh) ==
  /\ LET t0 == [NoTrace EXCEPT !.started = now,
                               !.wasCleared = (p.url \in cleared)]
         t1 == IF p.lazyLoading THEN reportProgress(t0, 60) ELSE t0
     IN IF p.api # NoDoc /\ ~forceRefresh
          THEN /\ trace' = [t0 EXCEPT !.served = "memo"]
               /\ call' = NoCall
               /\ result' = [NoResult EXCEPT !.status = "ok", !.doc = p.api]
               /\ pc' = "done"
          ELSE IF p.rawApiData # NoDoc
          THEN /\ trace' = [t1 EXCEPT !.served = "rawMemo"]
               /\ call' = [NoCall EXCEPT !.apiData = p.rawApiData]
               /\ result' = NoResult
               /\ pc' = "parseStart"
          ELSE /\ trace' = t1
               /\ call' = NoCall
               /\ result' = NoResult
               /\ pc' = "getFromCache"
  /\ parser' = p
  /\ cleared' = cleared \ {p.url}
  /\ UNCHANGED <<now, tiers, dirExists, readdirPending, unlinkPending, clears>>

\* OptimizedSwaggerParserTool.execute: a new parser is constructed (with
\* caching on, ensureCacheDir is started and not awaited) and its fetchApi()
\* is called
Execute(o) ==
  /\ Idle
  /\ Begin(NewInstance(o), FALSE)
  /\ mkdirPending' = (mkdirPending \/ o.useCache)
  /\ prev' = prev
  /\ UNCHANGED outsideParser

\* getAllSchemas() on an instance whose document is fetched: the table as it
\* is when it holds something and the mode is eager; else the schema section
\* of the memoized raw document parsed as a whole, which replaces the table
GetAllSchemas(ok) ==
  /\ pc = "done"
  /\ parser.api # NoDoc
  /\ LET look == [NoLookup EXCEPT !.name = "*", !.before = parser.schemas]
     IN IF parser.schemas # {} /\ ~parser.lazyLoading
          THEN /\ result' = [result EXCEPT !.schema =
                               [look EXCEPT !.value = "schema"]]
               /\ parser' = parser
        ELSE IF ok
          THEN /\ result' = [result EXCEPT !.schema =
                               [look EXCEPT !.value = "schema",
                                            !.parsed = TRUE]]
               /\ parser' = [parser EXCEPT !.schemas = RawSchemas]
          ELSE /\ result' = [result EXCEPT !.schema =
                               [look EXCEPT !.value = "undefined",
                                            !.parsed = TRUE]]
               /\ parser' = parser
  /\ UNCHANGED <<now, tiers, fsOps, pc, call, trace, hist>>
  /\ UNCHANGED outsideParser

\* a further fetchApi(forceRefresh) call on the instance in use, made when
\* the call before it has returned
FetchApi(forceRefresh) ==
  /\ pc = "done"
  /\ Begin(parser, forceRefresh)
  /\ UNCHANGED <<mkdirPending, prev>>
  /\ UNCHANGED outsideParser

\* getSchema(name) on an instance whose document is fetched: the value
\* already in api.components.schemas, or (lazy) the schema of the raw
\* document parsed alone and stored there; fetchRawApiData returns the
\* memoized raw document
GetSchema(name, ok) ==
  /\ pc = "done"
  /\ parser.api # NoDoc
  /\ LET loaded == Property(parser.schemas, name)
         raw == Property(RawSchemas, name)
         look == [NoLookup EXCEPT !.name = name, !.before = parser.schemas]
     IN IF loaded # "undefined"
          THEN /\ result' = [result EXCEPT !.schema =
                               [look EXCEPT !.value = loaded]]
               /\ parser' = parser
        ELSE IF ~parser.lazyLoading \/ raw = "undefined"
          THEN /\ result' = [result EXCEPT !.schema =
                               [look EXCEPT !.value = "undefined"]]
               /\ parser' = parser
        ELSE IF ok
          THEN /\ result' = [result EXCEPT !.schema =
                               [look EXCEPT !.value = raw, !.parsed = TRUE]]
               /\ parser' = [parser EXCEPT !.schemas = @ \cup {name}]
          ELSE /\ result' = [result EXCEPT !.schema =
                               [look EXCEPT !.value = "undefined",
                                            !.parsed = TRUE]]
               /\ parser' = parser
  /\ UNCHANGED <<now, tiers, fsOps, pc, call, trace, hist>>
  /\ UNCHANGED outsideParser

\* execute returns its result and drops the parser
Return ==
  /\ pc = "done"
  /\ pc' = "idle"
  /\ parser' = NewInstance(NoOptions)
  /\ call' = NoCall
  /\ trace' = NoTrace
  /\ result' = NoResult
  /\ prev' = [prev EXCEPT !.sameInstance = FALSE]
  /\ UNCHANGED <<now, tiers, fsOps, cleared, clears>>
  /\ UNCHANGED outsideParser

\* getFromCache up to fs.stat: caching off, or a fresh memory entry, or the
\* file tier is asked
GetFromCache ==
  /\ pc = "getFromCache"
  /\ IF ~parser.useCache
       THEN /\ pc' = "acquireStart"
            /\ UNCHANGED <<trace, call, parser>>
     ELSE IF Key \in DOMAIN cache /\ IsFresh(cache[Key].timestamp)
       THEN /\ trace' = [reportProgress(trace, 10) EXCEPT
                           !.served = "memory",
                           !.servedStored = cache[Key].stored,
                           !.servedOld = cache[Key].old]
            /\ call' = [call EXCEPT !.apiData = cache[Key].data]
            /\ parser' = [parser EXCEPT !.rawApiData = cache[Key].data]
            /\ pc' = "parseStart"
       ELSE /\ pc' = "stat"
            /\ UNCHANGED <<trace, call, parser>>
  /\ UNCHANGED <<now, tiers, fsOps, result, hist>>
  /\ UNCHANGED outsideParser

\* fs.stat of the cache file settles: it throws (no file, or an I/O error),
\* or the file is fresh and is read, or it is expired
StatDone(ok) ==
  /\ pc = "stat"
  /\ IF ok /\ Key \in DOMAIN cacheFiles
       THEN IF IsFresh(cacheFiles[Key].mtimeMs)
              THEN /\ trace' = reportProgress(trace, 10)
                   /\ pc' = "readFile"
                   /\ call' = call
              ELSE /\ pc' = "acquireStart"
                   /\ UNCHANGED <<trace, call>>
       ELSE /\ trace' = [trace EXCEPT !.ioFailed = @ \/ ~ok]
            /\ call' = [call EXCEPT !.error = "cache read failed"]
            /\ pc' = OnCacheReadError
  /\ UNCHANGED <<now, tiers, fsOps, parser, result, hist>>
  /\ UNCHANGED outsideParser

\* fs.readFile and JSON.parse of the cache file settle: the document is put
\* in the memory tier with timestamp Date.now() and returned, or they throw
ReadDone(ok) ==
  /\ pc = "readFile"
  /\ IF ok /\ Key \in DOMAIN cacheFiles
       THEN LET f == cacheFiles[Key] IN
            /\ cache' = Put(cache, Key,
                            [timestamp |-> now, data |-> f.data,
                             stored |-> f.mtimeMs, old |-> f.old])
            /\ trace' = [trace EXCEPT !.served = "file",
                                      !.servedStored = f.mtimeMs,
                                      !.servedOld = f.old,
                                      !.cacheWrites = @ + 1]
            /\ call' = [call EXCEPT !.apiData = f.data]
            /\ parser' = [parser EXCEPT !.rawApiData = f.data]
            /\ pc' = "parseStart"
       ELSE /\ trace' = [trace EXCEPT !.ioFailed = TRUE]
            /\ call' = [call EXCEPT !.error = "cache read failed"]
            /\ pc' = OnCacheReadError
            /\ UNCHANGED <<cache, parser>>
  /\ UNCHANGED <<now, cacheFiles, fsOps, result, hist>>
  /\ UNCHANGED outsideParser

-----------------------------------------------------------------------------
(* fetchRawApiData after a cache miss *)

\* report 0.3, then resolveSwaggerDocUrl up to its first probe
AcquireStart ==
  /\ pc = "acquireStart"
  /\ LET t == reportProgress(trace, 30) IN
     IF IsDocUrl(parser.url) \/ ~IsUiUrl(parser.url)
       THEN /\ trace' = t
            /\ call' = [call EXCEPT !.resolved = parser.url]
            /\ pc' = "acquire"
       ELSE /\ trace' = reportProgress(reportProgress(t, 10), 15)
            /\ call' = [call EXCEPT !.idx = 1]
            /\ pc' = "probe"
  /\ UNCHANGED <<now, tiers, fsOps, parser, result, hist>>
  /\ UNCHANGED outsideParser

\* the axios.get of one candidate endpoint settles
ProbeDone(resp) ==
  /\ pc = "probe"
  /\ LET eps == possibleEndpoints(parser.url)
         ep == eps[call.idx]
         t == [trace EXCEPT !.probes = Append(@, ep)]
     IN IF ~resp.failed /\ IsPlausible(resp)
          THEN /\ trace' = reportProgress(t, 20)
               /\ call' = [call EXCEPT !.resolved = ep]
               /\ pc' = "acquire"
        ELSE IF call.idx < Len(eps)
          THEN /\ trace' = reportProgress(t, 15)
               /\ call' = [call EXCEPT !.idx = @ + 1]
               /\ pc' = "probe"
          ELSE /\ trace' = reportProgress(t, 20)
               /\ call' = [call EXCEPT !.resolved = parser.url]
               /\ pc' = "acquire"
  /\ UNCHANGED <<now, tiers, fsOps, parser, result, hist>>
  /\ UNCHANGED outsideParser

\* the axios.get (http) or fs.readFile and JSON.parse (local file) of the
\* primary document settles; on success report 0.5 and saveToCache up to
\* fs.writeFile
AcquireDone(ok) ==
  /\ pc = "acquire"
  /\ IF ~ok
       THEN /\ trace' = [trace EXCEPT !.attempts = @ + 1]
            /\ call' = [call EXCEPT !.error =
                          IF StartsWithHttp(call.resolved)
                            THEN "get failed" ELSE "read file failed"]
            /\ pc' = OnAcquireError
            /\ UNCHANGED <<cache, parser>>
       ELSE /\ call' = [call EXCEPT !.apiData = now]
            /\ IF parser.useCache
                 THEN /\ cache' = Put(cache, Key,
                                      [timestamp |-> now, data |-> now,
                                       stored |-> now, old |-> FALSE])
                      /\ trace' = [reportProgress(trace, 50) EXCEPT
                                     !.attempts = @ + 1,
                                     !.served = "source",
                                     !.sourceDoc = now,
                                     !.cacheWrites = @ + 1]
                      /\ pc' = "writeFile"
                      /\ parser' = parser
                 ELSE /\ trace' = [reportProgress(trace, 50) EXCEPT
                                     !.attempts = @ + 1,
                                     !.served = "source",
                                     !.sourceDoc = now]
                      /\ parser' = [parser EXCEPT !.rawApiData = now]
                      /\ pc' = "parseStart"
                      /\ cache' = cache
  /\ UNCHANGED <<now, cacheFiles, fsOps, result, hist>>
  /\ UNCHANGED outsideParser

\* the fs.writeFile of saveToCache settles; an error is logged and dropped
WriteDone(ok) ==
  /\ pc = "writeFile"
  /\ IF ok /\ dirExists
       THEN /\ cacheFiles' = Put(cacheFiles, Key,
                                 [mtimeMs |-> now, data |-> call.apiData,
                                  old |-> FALSE])
            /\ trace' = [trace EXCEPT !.cacheWrites = @ + 1]
       ELSE /\ cacheFiles' = cacheFiles
            /\ trace' = [trace EXCEPT !.ioFailed = TRUE]
  /\ parser' = [parser EXCEPT !.rawApiData = call.apiData]
  /\ pc' = "parseStart"
  /\ UNCHANGED <<now, cache, fsOps, call, result, hist>>
  /\ UNCHANGED outsideParser

-----------------------------------------------------------------------------
(* The parse *)

\* lazy: parseApiLite reports 0.7 and parses the skeleton; eager: fetchApi
\* reports 0.6 and validates, or parses when validation is skipped
ParseStart ==
  /\ pc = "parseStart"
  /\ IF parser.lazyLoading
       THEN /\ trace' = reportProgress(trace, 70)
            /\ pc' = "parseLite"
       ELSE /\ trace' = reportProgress(trace, 60)
            /\ pc' = IF parser.skipValidation THEN "parse" ELSE "validate"
  /\ UNCHANGED <<now, tiers, fsOps, parser, call, result, hist>>
  /\ UNCHANGED outsideParser

\* SwaggerParser.validate settles
ValidateDone(ok) ==
  /\ pc = "validate"
  /\ LET t == [trace EXCEPT !.parses = Append(@,
                 [kind |-> "validate", doc |-> call.apiData, lite |-> FALSE,
                  ok |-> ok])]
     IN IF ok
          THEN /\ Succeed(t)
               /\ call' = call
          ELSE /\ trace' = reportProgress(t, 70)
               /\ call' = [call EXCEPT !.error = "validation failed"]
               /\ pc' = OnValidateError
               /\ UNCHANGED <<parser, result, prev>>
  /\ UNCHANGED <<now, tiers, fsOps, cleared, clears>>
  /\ UNCHANGED outsideParser

\* SwaggerParser.parse settles (of the document, or of its skeleton)
ParseDone(ok) ==
  /\ pc \in {"parse", "parseLite"}
  /\ LET t == [trace EXCEPT !.parses = Append(@,
                 [kind |-> "parse", doc |-> call.apiData,
                  lite |-> (pc = "parseLite"), ok |-> ok])]
     IN IF ok
          THEN /\ Succeed(t)
               /\ call' = call
          ELSE /\ trace' = t
               /\ call' = [call EXCEPT !.error = "parse failed"]
               /\ pc' = "catch"
               /\ UNCHANGED <<parser, result, prev>>
  /\ UNCHANGED <<now, tiers, fsOps, cleared, clears>>
  /\ UNCHANGED outsideParser

\* the catch block of fetchApi: report 1.0 and throw "Failed to fetch API"
Catch ==
  /\ pc = "catch"
  /\ trace' = catchProgress(trace)
  /\ result' = [NoResult EXCEPT
                  !.status = "error",
                  !.message = <<"Failed to fetch API", call.error>>]
  /\ pc' = "done"
  /\ prev' = PrevAfter(trace, call)
  /\ UNCHANGED <<now, tiers, fsOps, parser, call, cleared, clears>>
  /\ UNCHANGED outsideParser

-----------------------------------------------------------------------------

Next ==
  \/ Tick
  \/ \E ok \in BOOLEAN : MkdirDone(ok)
  \/ \E u \in ClearUrls : ClearCacheUrl(u)
  \/ ClearCacheAll
  \/ \E ok \in BOOLEAN : ReaddirDone(ok)
  \/ \E k \in unlinkPending, ok \in BOOLEAN : UnlinkDone(k, ok)
  \/ \E o \in ParserOptions : Execute(o)
  \/ \E f \in BOOLEAN : FetchApi(f)
  \/ Return
  \/ GetFromCache
  \/ \E ok \in BOOLEAN : StatDone(ok)
  \/ \E ok \in BOOLEAN : ReadDone(ok)
  \/ AcquireStart
  \/ \E r \in ProbeResponses : ProbeDone(r)
  \/ \E ok \in BOOLEAN : AcquireDone(ok)
  \/ \E ok \in BOOLEAN : WriteDone(ok)
  \/ ParseStart
  \/ \E ok \in BOOLEAN : ValidateDone(ok)
  \/ \E ok \in BOOLEAN : ParseDone(ok)
  \/ Catch

Spec == Init /\ [][Next]_vars

\* the calls of the tool with the getSchema calls that follow a fetch, the
\* cache not cleared
NextSchemas ==
  \/ Tick
  \/ \E ok \in BOOLEAN : MkdirDone(ok)
  \/ \E o \in ParserOptions : Execute(o)
  \/ \E f \in BOOLEAN : FetchApi(f)
  \/ \E n \in SchemaNames, ok \in BOOLEAN : GetSchema(n, ok)
  \/ \E ok \in BOOLEAN : GetAllSchemas(ok)
  \/ Return
  \/ GetFromCache
  \/ \E ok \in BOOLEAN : StatDone(ok)
  \/ \E ok \in BOOLEAN : ReadDone(ok)
  \/ AcquireStart
  \/ \E r \in ProbeResponses : ProbeDone(r)
  \/ \E ok \in BOOLEAN : AcquireDone(ok)
  \/ \E ok \in BOOLEAN : WriteDone(ok)
  \/ ParseStart
  \/ \E ok \in BOOLEAN : ValidateDone(ok)
  \/ \E ok \in BOOLEAN : ParseDone(ok)
  \/ Catch

SpecSchemas == Init /\ [][NextSchemas]_vars

\* the parser on a file system that refuses no mkdir and no writeFile (a
\* writeFile into a directory that does not exist yet fails all the same)
NextWritable ==
  \/ Tick
  \/ MkdirDone(TRUE)
  \/ \E o \in ParserOptions : Execute(o)
  \/ \E f \in BOOLEAN : FetchApi(f)
  \/ Return
  \/ GetFromCache
  \/ \E ok \in BOOLEAN : StatDone(ok)
  \/ \E ok \in BOOLEAN : ReadDone(ok)
  \/ AcquireStart
  \/ \E r \in ProbeResponses : ProbeDone(r)
  \/ \E ok \in BOOLEAN : AcquireDone(ok)
  \/ WriteDone(TRUE)
  \/ ParseStart
  \/ \E ok \in BOOLEAN : ValidateDone(ok)
  \/ \E ok \in BOOLEAN : ParseDone(ok)
  \/ Catch

SpecWritable == Init /\ [][NextWritable]_vars

-----------------------------------------------------------------------------
(* The operations of the template manager *)

\* where the failure of the file system strikes in one call, if anywhere
SaveFailures == {"none", "mkdir", "writeFile", "config"}
DeleteFailures == {"none", "unlink", "config"}

\* what saveCustomTemplate does when the id is that of a built-in template:
\* it throws before anything is written
SaveOverBuiltInAllowed == FALSE
SaveOverBuiltIn == TRUE

\* saveCustomTemplate(template): the built-in check, then mkdir and the write
\* of the body file, the update of customTemplates, and the write of the
\* manifest; any failure is rethrown, nothing done before it is undone
SaveCustomTemplate(id, type, content, fail) ==
  /\ LET i == FindIndex(getAllTemplates, id)
         path == relativePath(type, id)
         new == Template(id, type, path, content, FALSE)
         k == FindIndex(customTemplates, id)
         updated == IF k > 0 THEN [customTemplates EXCEPT ![k] = new]
                    ELSE Append(customTemplates, new)
     IN IF SaveOverBuiltIn /\ i > 0 /\ getAllTemplates[i].isBuiltIn
          THEN /\ tmCall' = [op |-> "save", id |-> id, status |-> "thrown",
                             message |-> "Cannot override built-in template"]
               /\ UNCHANGED <<customTemplates, templateFiles, customConfig>>
        ELSE IF fail \in {"mkdir", "writeFile"}
          THEN /\ tmCall' = [op |-> "save", id |-> id, status |-> "thrown",
                             message |-> fail]
               /\ UNCHANGED <<customTemplates, templateFiles, customConfig>>
        ELSE /\ templateFiles' = Put(templateFiles, path, content)
             /\ customTemplates' = updated
             /\ IF fail = "config"
                  THEN /\ customConfig' = customConfig
                       /\ tmCall' = [op |-> "save", id |-> id,
                                     status |-> "thrown", message |-> fail]
                  ELSE /\ customConfig' = ConfigData(updated)
                       /\ tmCall' = [op |-> "save", id |-> id,
                                     status |-> "returned", message |-> ""]
  /\ UNCHANGED <<builtInTemplates, outsideTemplates>>

\* what deleteCustomTemplate answers when the unlink of the body file or the
\* write of the manifest throws: the catch returns false
OnDeleteErrorThrow == "thrown"
OnDeleteError == "false"

\* deleteCustomTemplate(id): false for an unknown id, the thrown error of a
\* built-in id caught and turned into false, else the unlink of the body
\* file, the removal from customTemplates and the write of the manifest
DeleteCustomTemplate(id, fail) ==
  /\ LET i == FindIndex(getAllTemplates, id)
         template == getAllTemplates[i]
         answer == [op |-> "delete", id |-> id, status |-> "false", message |-> ""]
     IN IF i = 0
          THEN /\ tmCall' = answer
               /\ UNCHANGED <<customTemplates, templateFiles, customConfig>>
        ELSE IF template.isBuiltIn
          THEN /\ tmCall' = [answer EXCEPT
                               !.status = OnDeleteError,
                               !.message = "Cannot delete built-in template"]
               /\ UNCHANGED <<customTemplates, templateFiles, customConfig>>
        ELSE IF fail = "unlink" \/ template.path \notin DOMAIN templateFiles
          THEN /\ tmCall' = [answer EXCEPT !.status = OnDeleteError,
                                         !.message = "unlink"]
               /\ UNCHANGED <<customTemplates, templateFiles, customConfig>>
        ELSE /\ templateFiles' = Remove(templateFiles, template.path)
             /\ customTemplates' = WithoutId(customTemplates, id)
             /\ IF fail = "config"
                  THEN /\ customConfig' = customConfig
                       /\ tmCall' = [answer EXCEPT !.status = OnDeleteError,
                                                 !.message = fail]
                  ELSE /\ customConfig' =
                            ConfigData(WithoutId(customTemplates, id))
                       /\ tmCall' = [answer EXCEPT !.status = "true"]
  /\ UNCHANGED <<builtInTemplates, outsideTemplates>>

NextTemplates ==
  \/ \E id \in TemplateIds, type \in TemplateTypes,
        content \in TemplateContents, fail \in SaveFailures :
        SaveCustomTemplate(id, type, content, fail)
  \/ \E id \in TemplateIds, fail \in DeleteFailures :
        DeleteCustomTemplate(id, fail)

SpecTemplates == Init /\ [][NextTemplates]_vars

-----------------------------------------------------------------------------
(* TemplateManager.initialize: a call runs from await to await, and the    *)
(* calls of one manager interleave at the awaits                           *)

\* a template saved by an earlier run of the program
SavedTemplate ==
  Template("my-client", "api-client", relativePath("api-client", "my-client"),
           "v1", FALSE)

\* a manager just constructed; the custom directory holds nothing, or one
\* template, or a manifest entry whose body file is gone
InitLoader ==
  /\ InitParser
  /\ InitEngine
  /\ InitGeneratorState
  /\ document = DocEmpty
  /\ builtInTemplates = <<>>
  /\ customTemplates = <<>>
  /\ customConfig \in {<<>>, ConfigData(<<SavedTemplate>>)}
  /\ templateFiles \in {EmptyMap,
                        Put(EmptyMap, SavedTemplate.path, SavedTemplate.content)}
  /\ tmCall = NoTmCall
  /\ loading = [Loaded EXCEPT !.initialized = FALSE]

InFlight(c) == loading.calls[c].pc \in {"dirs", "builtIn", "custom"}

LoaderFrame ==
  UNCHANGED <<templateFiles, customConfig, tmCall, parserVars, engineVars,
              generatorVars, sinkVars>>

\* initialize() is called: it returns at once when the flag is set, else it
\* goes to its first await in ensureDirectoriesExist
Initialize(c) ==
  /\ ~InFlight(c)
  /\ loading.started < MaxInits
  /\ loading' = [loading EXCEPT
                   !.calls[c] = IF loading.initialized
                                  THEN [pc |-> "returned", at |-> 0]
                                ELSE [pc |-> "dirs", at |-> 0],
                   !.started = @ + 1,
                   !.overlapped = @ \/ \E d \in 1..MaxCalls : InFlight(d)]
  /\ UNCHANGED <<builtInTemplates, customTemplates>>
  /\ LoaderFrame

\* ensureDirectoriesExist settles, then the read of the built-in manifest
EnsureDirectoriesExist(c, ok) ==
  /\ loading.calls[c].pc = "dirs"
  /\ loading' = [loading EXCEPT
                   !.calls[c] = IF ok THEN [pc |-> "builtIn", at |-> 1]
                                ELSE [pc |-> "thrown", at |-> 0],
                   !.thrown = @ \/ ~ok]
  /\ UNCHANGED <<builtInTemplates, customTemplates>>
  /\ LoaderFrame

\* loadBuiltInTemplates: the body of the next template is read and the
\* template pushed, or the read fails and initialize throws; after the last
\* one the custom manifest is read, a failure of which is thrown too
LoadBuiltInTemplates(c, ok) ==
  /\ loading.calls[c].pc = "builtIn"
  /\ LET at == loading.calls[c].at
     IN IF ~ok
          THEN /\ loading' = [loading EXCEPT
                                !.calls[c] = [pc |-> "thrown", at |-> 0],
                                !.thrown = TRUE]
               /\ UNCHANGED builtInTemplates
        ELSE IF at <= Len(BuiltIn)
          THEN /\ builtInTemplates' = Append(builtInTemplates, BuiltIn[at])
               /\ loading' = [loading EXCEPT !.calls[c].at = at + 1]
        ELSE /\ loading' = [loading EXCEPT
                              !.calls[c] = [pc |-> "custom", at |-> 1]]
             /\ UNCHANGED builtInTemplates
  /\ UNCHANGED customTemplates
  /\ LoaderFrame

\* loadCustomTemplates: the body of the next template of the manifest is
\* read and the template pushed, or it cannot be read and is skipped; after
\* the last one initialize sets the flag and returns
LoadCustomTemplates(c) ==
  /\ loading.calls[c].pc = "custom"
  /\ LET at == loading.calls[c].at
     IN IF at <= Len(customConfig)
          THEN /\ customTemplates' =
                    IF customConfig[at].path \in DOMAIN templateFiles
                      THEN Append(customTemplates,
                                  Template(customConfig[at].id,
                                           customConfig[at].type,
                                           customConfig[at].path,
                                           templateFiles[customConfig[at].path],
                                           FALSE))
                    ELSE customTemplates
               /\ loading' = [loading EXCEPT !.calls[c].at = at + 1]
        ELSE /\ loading' = [loading EXCEPT
                              !.calls[c] = [pc |-> "returned", at |-> 0],
                              !.initialized = TRUE]
             /\ UNCHANGED customTemplates
  /\ UNCHANGED builtInTemplates
  /\ LoaderFrame

NextLoader ==
  \/ \E c \in 1..MaxCalls : Initialize(c)
  \/ \E c \in 1..MaxCalls, ok \in BOOLEAN : EnsureDirectoriesExist(c, ok)
  \/ \E c \in 1..MaxCalls, ok \in BOOLEAN : LoadBuiltInTemplates(c, ok)
  \/ \E c \in 1..MaxCalls : LoadCustomTemplates(c)

SpecLoader == InitLoader /\ [][NextLoader]_vars

-----------------------------------------------------------------------------
(* The operations of the template engine *)

\* getNestedValue(obj, path): the value at the end of the path, undefined as
\* soon as a part is missing
RECURSIVE getNestedValue(_, _)
getNestedValue(obj, path) ==
  IF path = <<>> THEN obj
  ELSE IF obj.kind = "undefined" THEN Undefined
  ELSE getNestedValue(IF Head(path) \in DOMAIN obj.fields
                        THEN obj.fields[Head(path)] ELSE Undefined,
                      Tail(path))

\* isTruthy(value)
isTruthy(value) ==
  CASE value.kind = "array" -> Len(value.items) > 0
    [] value.kind = "object" -> DOMAIN value.fields # {}
    [] value.kind = "string" -> value.text # ""
    [] value.kind = "number" -> value.text # "0"
    [] value.kind = "boolean" -> value.text = "true"
    [] OTHER -> FALSE

\* the text String(value) puts into the output: nothing for ''
StringOf(value) == IF value.text = "" THEN <<>> ELSE <<Text(value.text)>>

\* the position of the first piece of s that equals x; 0 when there is none
FirstIndex(s, x) == IndexOf(s, <<x>>)

\* processVariables(template, context): each {path} gives way to the text of
\* its value; an undefined value to nothing or, with preserveUnmatched, to
\* the tag itself
RECURSIVE processVariables(_, _)
processVariables(template, context) ==
  IF template = <<>> THEN <<>>
  ELSE LET piece == Head(template)
           value == getNestedValue(Obj(context), piece.arg)
       IN (IF piece.tag # "var" THEN <<piece>>
           ELSE IF value.kind = "undefined"
             THEN IF options.preserveUnmatched THEN <<piece>> ELSE <<>>
           ELSE StringOf(value))
          \o processVariables(Tail(template), context)

\* processConditionals(template, context): {?path}content{/path}, the close
\* tag being the nearest one of the same path, gives way to its content,
\* processed again, when the value is truthy and to nothing otherwise
RECURSIVE processConditionals(_, _)
processConditionals(template, context) ==
  IF template = <<>> THEN <<>>
  ELSE LET piece == Head(template)
           after == Tail(template)
           close == FirstIndex(after, Close(piece.arg))
           content == SubSeq(after, 1, close - 1)
           value == getNestedValue(Obj(context), piece.arg)
       IN IF piece.tag = "?" /\ close > 0
            THEN (IF isTruthy(value)
                    THEN processConditionals(content, context) ELSE <<>>)
                 \o processConditionals(SubSeq(after, close + 1, Len(after)),
                                        context)
          ELSE <<piece>> \o processConditionals(after, context)

\* '@first' and '@last' of the item at index (from 0) of a sequence
IsFirst(index, length) == index = 0
IsLastOffByOne(index, length) == index = length
IsLast(index, length) == index = length - 1

\* the context of one loop item: the outer context, the loop variables over
\* it, and the fields of a mapping item over both
itemContext(context, item, index, length) ==
  LET loopVars == [k \in {"@index", "@first", "@last", "@key", ".", "this"} |->
                     CASE k \in {"@index", "@key"} -> Num(index)
                       [] k = "@first" -> Bool(IsFirst(index, length))
                       [] k = "@last" -> Bool(IsLast(index, length))
                       [] OTHER -> item]
      names == DOMAIN context \cup DOMAIN loopVars
                 \cup (IF item.kind = "object" THEN DOMAIN item.fields ELSE {})
  IN [k \in names |->
        IF item.kind = "object" /\ k \in DOMAIN item.fields
          THEN item.fields[k]
        ELSE IF k \in DOMAIN loopVars THEN loopVars[k]
        ELSE context[k]]

\* processLoops(template, context): {#path}content{/path} gives way to
\* nothing when the value is no array, else to the content processed for
\* each item in turn (conditionals, loops, variables) and joined
RECURSIVE processLoops(_, _)
RECURSIVE loopItems(_, _, _, _)
loopItems(content, context, value, i) ==
  IF i > Len(value.items) THEN <<>>
  ELSE LET ic == itemContext(context, value.items[i], i - 1, Len(value.items))
       IN processVariables(
            processLoops(processConditionals(content, ic), ic), ic)
          \o loopItems(content, context, value, i + 1)

processLoops(template, context) ==
  IF template = <<>> THEN <<>>
  ELSE LET piece == Head(template)
           after == Tail(template)
           close == FirstIndex(after, Close(piece.arg))
           content == SubSeq(after, 1, close - 1)
           value == getNestedValue(Obj(context), piece.arg)
       IN IF piece.tag = "#" /\ close > 0
            THEN (IF value.kind # "array" THEN <<>>
                  ELSE loopItems(content, context, value, 1))
                 \o processLoops(SubSeq(after, close + 1, Len(after)), context)
          ELSE <<piece>> \o processLoops(after, context)

\* whether processPartials takes partials.get(name) for a template: the
\* test is !partial, which the empty template fails as undefined does
HasPartial(name) == name \in DOMAIN partials /\ partials[name] # <<>>

\* render(template, context) with depth frames of the call stack left:
\* conditionals, loops, partials, variables, in this order; processPartials
\* calls render for the template of each {>name}
RECURSIVE render(_, _, _)
RECURSIVE processPartials(_, _, _)
processPartials(template, context, depth) ==
  IF template = <<>> THEN <<>>
  ELSE LET piece == Head(template)
           name == piece.arg[1]
       IN (IF piece.tag # ">" THEN <<piece>>
           ELSE IF ~HasPartial(name) THEN <<NotFound(piece.arg)>>
           ELSE IF depth = 0 THEN <<RangeError>>
           ELSE render(partials[name], context, depth - 1))
          \o processPartials(Tail(template), context, depth)

render(template, context, depth) ==
  processVariables(
    processPartials(
      processLoops(processConditionals(template, context), context),
      context, depth),
    context)

\* whether a call threw: the error passes through every frame
Threw(output) == \E i \in 1..Len(output) : output[i] = RangeError

\* new TemplateEngine(options)
NewEngine(preserveUnmatched) ==
  /\ options' = [preserveUnmatched |-> preserveUnmatched]
  /\ partials' = EmptyMap
  /\ rendered' = NoRender
  /\ UNCHANGED outsideEngine

\* registerPartial(name, template)
RegisterPartial(name, template) ==
  /\ partials' = Put(partials, name, template)
  /\ UNCHANGED <<options, rendered, outsideEngine>>

\* a call of render(template, context) from outside the engine
Render(template, context) ==
  /\ LET output == render(template, context, MaxDepth)
     IN rendered' = [template |-> template, context |-> context,
                     status |-> IF Threw(output) THEN "thrown" ELSE "returned",
                     output |-> IF Threw(output) THEN <<>> ELSE output]
  /\ UNCHANGED <<options, partials, outsideEngine>>

NextEngine ==
  \/ \E preserveUnmatched \in BOOLEAN : NewEngine(preserveUnmatched)
  \/ \E name \in PartialNames, template \in PartialBodies :
        RegisterPartial(name, template)
  \/ \E template \in Templates, context \in Contexts :
        Render(template, context)

SpecEngine == Init /\ [][NextEngine]_vars

-----------------------------------------------------------------------------
(* The operations of the generators *)

\* SwaggerApiParser.getSchemas()[name], a property read on a plain object:
\* the own value, else the inherited member, else undefined (NullSchema
\* stands for undefined too)
SchemaOf(schemas, name) ==
  IF \E i \in 1..Len(schemas) : schemas[i].name = name
    THEN schemas[CHOOSE i \in 1..Len(schemas) : schemas[i].name = name].schema
  ELSE IF Len(name) = 1 /\ name[1] \in ObjectPrototype THEN InheritedMember
  ELSE NullSchema

\* getTypeFromSchema(schema, fallbackName, options) without typeMapping: a
\* reference gives its name, an array the type of its items, an object the
\* types of its properties
RECURSIVE getTypeFromSchema(_)
RECURSIVE propertyTypes(_, _)
propertyTypes(props, i) ==
  IF i > Len(props) THEN <<>>
  ELSE <<"p", "?: ">> \o getTypeFromSchema(props[i]) \o <<"; ">>
         \o propertyTypes(props, i + 1)

getTypeFromSchema(schema) ==
  IF schema.ref # <<>> THEN schema.ref
  ELSE IF schema.type = "array"
    THEN getTypeFromSchema(schema.sub[1]) \o <<"[]">>
  ELSE IF schema.type = "string" THEN <<"string">>
  ELSE IF schema.type = "object"
    THEN IF schema.sub # <<>>
           THEN <<"{ ">> \o propertyTypes(schema.sub, 1) \o <<" }">>
           ELSE <<"Record<string, any>">>
  ELSE <<"any">>

\* the stack of a collectSchemaTypes call that never returns is exhausted
StackOverflow == <<"RangeError">>

\* collectSchemaTypes(schema, schemas, usedTypes) with depth frames of the
\* call stack left: the names added to usedTypes.  A reference adds its name
\* and the call goes on into the schema of that name, then into the items
\* and the properties
RECURSIVE collectSchemaTypes(_, _, _)
collectSchemaTypes(schema, schemas, depth) ==
  IF schema.type = "null" THEN {}
  ELSE IF depth = 0 THEN {StackOverflow}
  ELSE (IF schema.ref # <<>>
          THEN {schema.ref}
                 \cup collectSchemaTypes(SchemaOf(schemas, schema.ref),
                                         schemas, depth - 1)
          ELSE {})
       \cup UNION {collectSchemaTypes(schema.sub[i], schemas, depth - 1) :
                     i \in 1..Len(schema.sub)}

\* collectTypes(operation, schemas, usedTypes): the schemas of the
\* parameters, of the request body and of the responses
collectTypes(operation, schemas, depth) ==
  LET all == operation.parameters \o operation.requestBody
               \o operation.responses
  IN UNION {collectSchemaTypes(all[i], schemas, depth) : i \in 1..Len(all)}

\* formatSchemaNameToFileName(schemaName): the characters outside
\* [a-zA-Z0-9_-] dropped, a dash between a lower and an upper case letter
\* and between an upper case letter and an upper-lower pair, all lower case
RECURSIVE dashLowerUpper(_)
dashLowerUpper(s) ==
  IF Len(s) < 2 THEN s
  ELSE (IF s[1] \in LowerCase /\ s[2] \in UpperCase
          THEN <<s[1], "-">> ELSE <<s[1]>>) \o dashLowerUpper(Tail(s))

RECURSIVE dashUpperUpperLower(_)
dashUpperUpperLower(s) ==
  IF Len(s) < 3 THEN s
  ELSE (IF s[1] \in UpperCase /\ s[2] \in UpperCase /\ s[3] \in LowerCase
          THEN <<s[1], "-">> ELSE <<s[1]>>) \o dashUpperUpperLower(Tail(s))

formatSchemaNameToFileName(schemaName) ==
  LET fileName == dashUpperUpperLower(
                    dashLowerUpper(SelectSeq(schemaName, IsNameChar)))
  IN [i \in 1..Len(fileName) |-> toLowerCase(fileName[i])]

\* formatGroupName(name): the characters outside [a-zA-Z0-9_-] dropped, a
\* dash and the lower case letter after it turned into the upper case
\* letter, a leading upper case letter lowered, 'api' before a leading digit
RECURSIVE camelCase(_)
camelCase(s) ==
  IF Len(s) < 2 THEN s
  ELSE IF s[1] = "-" /\ s[2] \in LowerCase
    THEN <<toUpperCase(s[2])>> \o camelCase(SubSeq(s, 3, Len(s)))
  ELSE <<s[1]>> \o camelCase(Tail(s))

formatGroupName(name) ==
  LET camel == camelCase(SelectSeq(name, IsNameChar))
      lowered == IF camel # <<>> /\ camel[1] \in UpperCase
                   THEN <<toLowerCase(camel[1])>> \o Tail(camel) ELSE camel
  IN IF lowered # <<>> /\ lowered[1] \in DigitChars
       THEN <<"api">> \o lowered ELSE lowered

\* the groups of groupOperations, in the order their names
\* first come up, an operation without tags under 'default'
AddToGroup(grouped, name, operation) ==
  IF \E k \in 1..Len(grouped) : grouped[k].name = name
    THEN LET k == CHOOSE k \in 1..Len(grouped) : grouped[k].name = name
         IN [grouped EXCEPT ![k].operations = Append(@, operation)]
    ELSE Append(grouped, [name |-> name, operations |-> <<operation>>])

RECURSIVE addToGroups(_, _, _)
addToGroups(grouped, names, operation) ==
  IF names = <<>> THEN grouped
  ELSE addToGroups(AddToGroup(grouped, Head(names), operation), Tail(names),
                   operation)

\* the groupNames of an operation: its tags or 'default', or the first segment
\* of its path or 'default'
GroupNames(operation, groupBy) ==
  IF groupBy = "tag"
    THEN IF operation.tags # <<>> THEN operation.tags ELSE <<<<"default">>>>
  ELSE IF operation.path # <<>> THEN <<operation.path[1]>>
  ELSE <<<<"default">>>>

RECURSIVE groupEach(_, _, _)
groupEach(operations, groupBy, grouped) ==
  IF operations = <<>> THEN grouped
  ELSE groupEach(Tail(operations), groupBy,
                 addToGroups(grouped, GroupNames(Head(operations), groupBy),
                             Head(operations)))

\* whether groupOperations throws: `grouped[name]` of a name that the empty
\* object inherits is a function, so no list is made and `.push` is not a
\* function (TypeError)
GroupThrows(operations, groupBy) ==
  /\ groupBy # "none"
  /\ \E i \in 1..Len(operations) :
       \E k \in 1..Len(GroupNames(operations[i], groupBy)) :
          SchemaOf(<<>>, GroupNames(operations[i], groupBy)[k])
            = InheritedMember

groupOperations(operations, groupBy) ==
  IF groupBy = "none"
    THEN <<[name |-> <<"api">>, operations |-> operations]>>
  ELSE groupEach(operations, groupBy, <<>>)

\* result[name] = schema on an object kept in the order of its keys
SetKey(table, name, schema) ==
  IF \E i \in 1..Len(table) : table[i].name = name
    THEN [i \in 1..Len(table) |->
            IF table[i].name = name THEN Entry(name, schema) ELSE table[i]]
  ELSE Append(table, Entry(name, schema))

\* delete result[name]
DeleteKey(table, name) == SelectSeq(table, LAMBDA e : e.name # name)

RECURSIVE includeOnly(_, _, _)
includeOnly(schemas, includeSchemas, table) ==
  IF includeSchemas = <<>> THEN table
  ELSE includeOnly(schemas, Tail(includeSchemas),
                   IF SchemaOf(schemas, Head(includeSchemas)) # NullSchema
                     THEN SetKey(table, Head(includeSchemas),
                                 SchemaOf(schemas, Head(includeSchemas)))
                     ELSE table)

RECURSIVE excludeAll(_, _)
excludeAll(table, excludeSchemas) ==
  IF excludeSchemas = <<>> THEN table
  ELSE excludeAll(DeleteKey(table, Head(excludeSchemas)),
                  Tail(excludeSchemas))

\* filterSchemas(schemas, includeSchemas, excludeSchemas); an absent list is
\* the empty one. The exclusion works on a copy, and nothing is assigned to
\* `schemas` on any path
filterSchemas(schemas, includeSchemas, excludeSchemas) ==
  IF includeSchemas # <<>> THEN includeOnly(schemas, includeSchemas, <<>>)
  ELSE IF excludeSchemas # <<>> THEN excludeAll(schemas, excludeSchemas)
  ELSE schemas

\* whether convertSchemaToTypeScript throws: a TypeError on a schema or a
\* property that is null
ConvertThrows(schema) ==
  \/ schema.type = "null"
  \/ \E i \in 1..Len(schema.sub) : schema.sub[i].type = "null"

\* convertSchemaToTypeScript(schemaName, schema, options)
convertSchemaToTypeScript(schemaName, schema) ==
  IF schema.type = "object"
    THEN <<"export interface ">> \o schemaName \o <<" {">>
           \o propertyTypes(schema.sub, 1) \o <<"}">>
  ELSE IF schema.type = "array"
    THEN <<"export type ">> \o schemaName \o <<" = ">>
           \o getTypeFromSchema(schema.sub[1]) \o <<"[]">>
  ELSE <<"export type ">> \o schemaName \o <<" = ">>
         \o getTypeFromSchema(schema)

\* whether generateClientCode throws: collectTypes exhausts the stack
ClientCodeThrows(operations, schemas) ==
  \E i \in 1..Len(operations) :
    StackOverflow \in collectTypes(operations[i], schemas, MaxStack)

\* generateClientCode(...): the types imported and the functions generated
generateClientCode(groupName, operations, schemas) ==
  [group |-> groupName,
   imports |-> UNION {collectTypes(operations[i], schemas, MaxStack) :
                        i \in 1..Len(operations)},
   functions |-> Len(operations)]

IndexFile == <<"index", ".ts">>
ConfigFile(clientType) == <<clientType, "-client", ".ts">>

\* generateIndexFile(files, baseDir) of the client generator: an export for
\* every file but the index and the client configuration, and one for
\* './axios-client'
EndsWithClient(file) == Len(file) >= 2 /\ file[Len(file) - 1] = "-client"

RECURSIVE exportsOf(_)
exportsOf(files) ==
  IF files = <<>> THEN <<>>
  ELSE (IF Head(files) = IndexFile \/ EndsWithClient(Head(files))
          THEN <<>> ELSE <<Head(files)>>) \o exportsOf(Tail(files))

\* what the loop of generate does with the failure of one item: the catch
\* inside the loop turns it into a warning
OnItemErrorAbort == "abort"
OnItemError == "warning"

Warning(kind, about, message) ==
  [kind |-> kind, about |-> about, message |-> message]

\* the rest of one turn of the loop of generate, for an item that has its
\* file name and either its content or the error thrown for it: a warning
\* for the error, a warning for a file that exists and is not to be
\* overwritten, else the write and the path added to the files
ProcessItem(acc, name, fileName, error, content, overwrite, writeFails) ==
  IF error # "" \/ (~(fileName \in DOMAIN acc.dir /\ ~overwrite) /\ writeFails)
    THEN [acc EXCEPT
            !.warnings = Append(@, Warning("failed", name,
                                           IF error # "" THEN error ELSE "EIO")),
            !.failed = @ + 1,
            !.aborted = OnItemError = "abort"]
  ELSE IF fileName \in DOMAIN acc.dir /\ ~overwrite
    THEN [acc EXCEPT !.warnings = Append(@, Warning("skipped", fileName, ""))]
  ELSE [acc EXCEPT !.dir = Put(@, fileName, content),
                   !.files = Append(@, fileName)]

\* the errors of the items
ConvertError(schema) == IF ConvertThrows(schema) THEN "TypeError" ELSE ""
ClientCodeError(operations, schemas) ==
  IF ClientCodeThrows(operations, schemas)
    THEN "Maximum call stack size exceeded" ELSE ""

\* the loop over the schemas of TypeScriptTypesGenerator.generate
RECURSIVE typesLoop(_, _, _, _, _)
typesLoop(entries, i, overwrite, failAt, acc) ==
  IF i > Len(entries) \/ acc.aborted THEN acc
  ELSE LET e == entries[i]
       IN typesLoop(entries, i + 1, overwrite, failAt,
            ProcessItem(acc, e.name,
              formatSchemaNameToFileName(e.name) \o <<".ts">>,
              ConvertError(e.schema),
              IF ConvertThrows(e.schema) THEN <<>>
              ELSE [types |-> convertSchemaToTypeScript(e.name, e.schema)],
              overwrite, failAt = i))

\* the loop over the groups of ApiClientGenerator.generate
RECURSIVE clientLoop(_, _, _, _, _, _)
clientLoop(groups, schemas, i, overwrite, failAt, acc) ==
  IF i > Len(groups) \/ acc.aborted THEN acc
  ELSE LET g == groups[i]
           fileName == formatGroupName(g.name) \o <<".ts">>
           exists == fileName \in DOMAIN acc.dir /\ ~overwrite
       IN clientLoop(groups, schemas, i + 1, overwrite, failAt,
            IF exists
              THEN [acc EXCEPT
                      !.warnings = Append(@, Warning("skipped", fileName, ""))]
            ELSE ProcessItem(acc, g.name, fileName,
                   ClientCodeError(g.operations, schemas),
                   IF ClientCodeThrows(g.operations, schemas) THEN <<>>
                   ELSE generateClientCode(formatGroupName(g.name),
                                           g.operations, schemas),
                   overwrite, failAt = i))

\* where a failure outside the loop strikes in one call, if anywhere: in
\* fetchApi (or, to the same effect, in ensureDirectoryExists), in the write
\* of the index file, in the write of the client configuration
GenerateFailures == {"none", "fetch", "index", "config"}
ClientTypes == {"axios", "fetch", "react-query"}

NoItems(dir) == [dir |-> dir, files |-> <<>>, warnings |-> <<>>, failed |-> 0,
                 aborted |-> FALSE]

Failure(generator, message, retained, clientType, failed) ==
  [generator |-> generator, status |-> "returned", success |-> FALSE,
   files |-> <<>>, warnings |-> <<>>, error |-> message,
   retained |-> retained, emptyBefore |-> DOMAIN outputFiles = {},
   failed |-> failed, clientType |-> clientType, useCache |-> FALSE,
   fetches |-> 1]

Success(generator, files, warnings, retained, clientType, failed) ==
  [generator |-> generator, status |-> "returned", success |-> TRUE,
   files |-> files, warnings |-> warnings, error |-> "",
   retained |-> retained, emptyBefore |-> DOMAIN outputFiles = {},
   failed |-> failed, clientType |-> clientType, useCache |-> FALSE,
   fetches |-> 1]

\* TypeScriptTypesGenerator.generate(options): every failure is caught and
\* returned; what was written before it stays written
TypesGenerate(includeSchemas, overwrite, fail, failAt) ==
  /\ LET filtered == filterSchemas(document.schemas, includeSchemas, <<>>)
         names == [i \in 1..Len(filtered) |-> filtered[i].name]
         done == typesLoop(filtered, 1, overwrite, failAt,
                           NoItems(outputFiles))
     IN IF fail = "fetch"
          THEN /\ generation' = Failure("types", fail, <<>>, "", 0)
               /\ outputFiles' = outputFiles
        ELSE IF document.schemas = <<>>
          THEN /\ generation' = Failure("types", "No schemas found", <<>>,
                                        "", 0)
               /\ outputFiles' = outputFiles
        ELSE IF done.aborted \/ (fail = "index" /\ done.files # <<>>)
          THEN /\ generation' = Failure("types",
                                        IF done.aborted THEN "item" ELSE fail,
                                        names, "", done.failed)
               /\ outputFiles' = done.dir
        ELSE IF done.files # <<>>
          THEN /\ generation' = Success("types", Append(done.files, IndexFile),
                                        done.warnings, names, "",
                                        done.failed)
               /\ outputFiles' = Put(done.dir, IndexFile, done.files)
        ELSE /\ generation' = Success("types", <<>>, done.warnings, names, "",
                                      done.failed)
             /\ outputFiles' = done.dir
  /\ UNCHANGED <<document, applied, outsideGenerators>>

\* the result of a call whose options carried useCache
WithOptions(useCache, returned) == [returned EXCEPT !.useCache = useCache]

\* ApiClientGenerator.generate(options) with groupBy 'tag'; the document comes
\* from a new SwaggerApiParser, whose fetchApi asks the source on every call
\* (fetches = 1 in every result); options.useCache is read nowhere
ApiClientGenerate(useCache, clientType, overwrite, fail, failAt) ==
  /\ LET groups == groupOperations(document.operations, "tag")
         names == [i \in 1..Len(groups) |-> groups[i].name]
         done == clientLoop(groups, document.schemas, 1, overwrite, failAt,
                            NoItems(outputFiles))
         indexed == IF done.files # <<>>
                      THEN [done EXCEPT
                              !.dir = Put(@, IndexFile,
                                          Append(exportsOf(done.files),
                                                 <<"axios-client">>)),
                              !.files = Append(@, IndexFile)]
                    ELSE done
         config == ConfigFile(clientType)
         writesConfig == /\ clientType \in {"axios", "fetch"}
                         /\ (config \notin DOMAIN indexed.dir \/ overwrite)
     IN IF fail = "fetch"
          THEN /\ generation' = WithOptions(useCache,
                      Failure("client", fail, <<>>, clientType, 0))
               /\ outputFiles' = outputFiles
        ELSE IF document.operations # <<>>
                  /\ GroupThrows(document.operations, "tag")
          THEN /\ generation' = WithOptions(useCache,
                      Failure("client", "TypeError", <<>>, clientType, 0))
               /\ outputFiles' = outputFiles
        ELSE IF document.operations = <<>>
          THEN /\ generation' = WithOptions(useCache,
                      Failure("client", "No API operations found", <<>>,
                        clientType, 0))
               /\ outputFiles' = outputFiles
        ELSE IF done.aborted \/ (fail = "index" /\ done.files # <<>>)
          THEN /\ generation' = WithOptions(useCache,
                      Failure("client", IF done.aborted THEN "item" ELSE
                        fail, names, clientType, done.failed))
               /\ outputFiles' = done.dir
        ELSE IF fail = "config" /\ writesConfig
          THEN /\ generation' = WithOptions(useCache,
                      Failure("client", fail, names, clientType, done.failed))
               /\ outputFiles' = indexed.dir
        ELSE IF writesConfig
          THEN /\ generation' = WithOptions(useCache,
                      Success("client", Append(indexed.files, config),
                        indexed.warnings, names, clientType, done.failed))
               /\ outputFiles' = Put(indexed.dir, config, <<clientType>>)
        ELSE /\ generation' = WithOptions(useCache,
                    Success("client", indexed.files, indexed.warnings, names,
                      clientType, done.failed))
             /\ outputFiles' = indexed.dir
  /\ UNCHANGED <<document, applied, outsideGenerators>>

\* generate called with options that carry no cache flag
ClientGenerate(clientType, overwrite, fail, failAt) ==
  ApiClientGenerate(FALSE, clientType, overwrite, fail, failAt)

\* the handler of the tool generate-api-client-optimized: useCache defaults to
\* true, then execute passes the parameters to ApiClientGenerator.generate
GenerateApiClientOptimized(useCache, clientType, overwrite, fail, failAt) ==
  ApiClientGenerate(useCache, clientType, overwrite, fail, failAt)

NextGenerators ==
  \/ \E includeSchemas \in {<<>>, <<NameTag>>}, overwrite \in BOOLEAN,
        fail \in GenerateFailures \ {"config"}, failAt \in 0..MaxEntries :
        /\ fail = "none" \/ failAt = 0
        /\ TypesGenerate(includeSchemas, overwrite, fail, failAt)
  \/ \E clientType \in ClientTypes, overwrite \in BOOLEAN,
        fail \in GenerateFailures, failAt \in 0..MaxEntries :
        /\ fail = "none" \/ failAt = 0
        /\ ClientGenerate(clientType, overwrite, fail, failAt)

\* the generators at work on any of the documents
InitGenerators ==
  /\ InitParser
  /\ InitTemplates
  /\ InitEngine
  /\ InitGeneratorState
  /\ document \in Documents

SpecGenerators == InitGenerators /\ [][NextGenerators]_vars

\* the two tools registered by ApiClientGeneratorTool.register
NextClientTools ==
  \/ \E clientType \in ClientTypes, overwrite \in BOOLEAN,
        fail \in GenerateFailures, failAt \in 0..MaxEntries :
        /\ fail = "none" \/ failAt = 0
        /\ ClientGenerate(clientType, overwrite, fail, failAt)
  \/ \E useCache \in BOOLEAN, clientType \in ClientTypes,
        overwrite \in BOOLEAN, fail \in GenerateFailures,
        failAt \in 0..MaxEntries :
        /\ fail = "none" \/ failAt = 0
        /\ GenerateApiClientOptimized(useCache, clientType, overwrite, fail,
                                      failAt)

SpecClientTools == InitGenerators /\ [][NextClientTools]_vars

-----------------------------------------------------------------------------
(* fetchApi of a new parser with a document URL, from its call to its      *)
(* return, in an environment that settles every outcome the call depends   *)
(* on, and with a progress sink that returns or throws                     *)

\* what the call meets: its options, a fresh entry in the memory tier or in
\* the file tier, whether the source answers, whether the document validates
\* and parses
Environments ==
  [lazyLoading : BOOLEAN, useCache : BOOLEAN, skipValidation : BOOLEAN,
   memory : BOOLEAN, file : BOOLEAN, source : BOOLEAN, valid : BOOLEAN,
   parses : BOOLEAN]

\* options.progressCallback: absent, or a function that throws when it is
\* given one of the fractions of throwsAt and returns otherwise
NoSink == [present |-> FALSE, throwsAt |-> {}]
Sinks ==
  {NoSink} \cup {[present |-> TRUE, throwsAt |-> at] :
                   at \in {{}, {10}, {30}, {50}, {60}, {70}, {100},
                           {10, 30, 50, 60, 70, 100}}}

\* reportProgress(fraction, message) throws what the sink throws
ReportThrows(sink, fraction) == sink.present /\ fraction \in sink.throwsAt

Thrown == [returned |-> FALSE, origin |-> "none"]
Got(origin) == [returned |-> TRUE, origin |-> origin]

\* getFromCache: the report of the memory tier is outside any try, the report
\* of the file tier is inside the try whose catch ignores every error
getFromCacheWith(env, sink) ==
  IF ~env.useCache THEN Got("none")
  ELSE IF env.memory
    THEN IF ReportThrows(sink, 10) THEN Thrown ELSE Got("memory")
  ELSE IF env.file /\ ~ReportThrows(sink, 10) THEN Got("file")
  ELSE Got("none")

\* fetchRawApiData: the cached data, or reports 0.3 and 0.5 around the
\* acquisition; saveToCache catches its own errors
fetchRawApiDataWith(env, sink) ==
  LET cachedData == getFromCacheWith(env, sink)
  IN IF ~cachedData.returned THEN Thrown
     ELSE IF cachedData.origin # "none" THEN cachedData
     ELSE IF ReportThrows(sink, 30) THEN Thrown
     ELSE IF ~env.source THEN Thrown
     ELSE IF ReportThrows(sink, 50) THEN Thrown
     ELSE Got("source")

\* parseApiLite: report 0.6, the data, report 0.7 and the parse inside a try
\* that throws again
parseApiLiteWith(env, sink) ==
  LET apiData == fetchRawApiDataWith(env, sink)
  IN IF ReportThrows(sink, 60) THEN Thrown
     ELSE IF ~apiData.returned THEN Thrown
     ELSE IF ReportThrows(sink, 70) \/ ~env.parses THEN Thrown
     ELSE apiData

\* the eager branch of fetchApi: the data, report 0.6, then validate with
\* the fall back to parse after report 0.7, or parse alone
parseFullWith(env, sink) ==
  LET apiData == fetchRawApiDataWith(env, sink)
  IN IF ~apiData.returned THEN Thrown
     ELSE IF ReportThrows(sink, 60) THEN Thrown
     ELSE IF env.skipValidation
       THEN IF env.parses THEN apiData ELSE Thrown
     ELSE IF env.valid THEN apiData
     ELSE IF ReportThrows(sink, 70) \/ ~env.parses THEN Thrown
     ELSE apiData

\* fetchApi(): the report 1.0 of the success is inside the try; the catch
\* reports 1.0 and throws, whether or not that report throws first
fetchApiWith(env, sink) ==
  LET api == IF env.lazyLoading THEN parseApiLiteWith(env, sink)
             ELSE parseFullWith(env, sink)
  IN IF ~api.returned THEN Thrown
     ELSE IF ReportThrows(sink, 100) THEN Thrown
     ELSE api

\* new OptimizedSwaggerApiParser({..., progressCallback}).fetchApi() in the
\* environment and with the sink of the state
FetchApiWithSink ==
  /\ sinkCall' = [sinkCall EXCEPT
                    !.called = TRUE,
                    !.outcome = fetchApiWith(sinkCall.env, sinkCall.sink)]
  /\ UNCHANGED <<parserVars, templateVars, engineVars, generatorVars,
                 loaderVars>>

NextSink == FetchApiWithSink

\* any environment and any sink
InitSink ==
  /\ InitFetcher
  /\ \E env \in Environments, sink \in Sinks :
       sinkCall = [NoSinkCall EXCEPT !.env = env, !.sink = sink]
  /\ InitTemplates
  /\ InitEngine
  /\ InitGeneratorState
  /\ document = DocEmpty

SpecSink == InitSink /\ [][NextSink]_vars

\* the lists of schema names a caller may pass, one of them a name that is in
\* no document and that every object inherits
ListedNames == {NameTag, NameNode, NameConstructor}
NameLists ==
  UNION {[1..n -> ListedNames] : n \in 0..MaxNames}

\* filterSchemas applied to the schema table of the document and the lists
\* of the options
FilterSchemas ==
  /\ applied' = [applied EXCEPT
                   !.function = "filterSchemas",
                   !.schemas = document.schemas,
                   !.operations = <<>>,
                   !.groupBy = "",
                   !.after = document.schemas,
                   !.threw = FALSE,
                   !.result = filterSchemas(document.schemas,
                                            applied.includeSchemas,
                                            applied.excludeSchemas)]
  /\ UNCHANGED <<document, outputFiles, generation, outsideGenerators>>

\* groupOperations applied to the operations of the document
GroupOperations(groupBy) ==
  /\ applied' = [applied EXCEPT
                   !.function = "groupOperations",
                   !.schemas = <<>>,
                   !.after = <<>>,
                   !.operations = document.operations,
                   !.groupBy = groupBy,
                   !.threw = GroupThrows(document.operations, groupBy),
                   !.result = IF GroupThrows(document.operations, groupBy)
                                THEN <<>>
                              ELSE groupOperations(document.operations,
                                                   groupBy)]
  /\ UNCHANGED <<document, outputFiles, generation, outsideGenerators>>

\* operations under paths of two segments, of one and at the root, with two
\* tags, with one tag twice and with none
DocPaths ==
  [schemas |-> <<Entry(NameTag, StringSchema)>>,
   operations |->
     <<At(<<TagPet, <<"{id}">>>>,
          Operation(<<TagPet, TagTag>>, <<>>, <<>>, <<RefTo(NameTag)>>)),
       At(<<TagTag>>, Operation(<<>>, <<>>, <<>>, <<StringSchema>>)),
       At(<<>>, Operation(<<TagTag, TagTag>>, <<>>, <<>>, <<>>)),
       At(<<TagPet>>, Operation(<<TagUsers>>, <<>>, <<>>, <<>>))>>]

\* a tag that is the name of a member every object inherits
DocInheritedTag ==
  [schemas |-> <<Entry(NameTag, StringSchema)>>,
   operations |->
     <<At(<<TagPet>>, Operation(<<TagPet>>, <<>>, <<>>, <<>>)),
       At(<<TagTag>>, Operation(<<NameConstructor>>, <<>>, <<>>, <<>>))>>]

\* the same name as the first segment of a path
DocInheritedPath ==
  [schemas |-> <<Entry(NameTag, StringSchema)>>,
   operations |->
     <<At(<<NameConstructor, TagPet>>,
          Operation(<<TagPet>>, <<>>, <<>>, <<>>))>>]

NextHelpers ==
  \/ FilterSchemas
  \/ \E groupBy \in {"tag", "path", "none"} : GroupOperations(groupBy)

\* any of the documents, and any two lists as options.includeSchemas and
\* options.excludeSchemas
InitHelpers ==
  /\ InitParser
  /\ InitTemplates
  /\ InitEngine
  /\ outputFiles = EmptyMap
  /\ generation = NoGeneration
  /\ \E includeSchemas \in NameLists, excludeSchemas \in NameLists :
       applied = [NoApplication EXCEPT !.includeSchemas = includeSchemas,
                                       !.excludeSchemas = excludeSchemas]
  /\ document \in Documents \cup {DocPaths, DocInheritedTag, DocInheritedPath}

SpecHelpers == InitHelpers /\ [][NextHelpers]_vars

-----------------------------------------------------------------------------
(* Properties of the cache *)

Done == pc = "done"
FromCache == trace.served \in {"memory", "file"}

\* C1: with caching enabled, no fetch is served, from the memory tier or from
\* the file tier, a raw document whose cache entry was stored a full TTL or
\* more before the fetch started, also after a file entry was copied into the
\* memory tier by an earlier fetch.
C1_NoExpiredEntryServed ==
  FromCache => trace.started - trace.servedStored < cacheTTL

\* the fetch this one follows: it acquired the document under the same key
\* with caching enabled, on another parser instance, with no clearCache
\* since
FollowsCachedFetch ==
  /\ pc \notin {"idle", "done"}
  /\ parser.useCache
  /\ prev.doc # NoDoc
  /\ prev.key = Key
  /\ ~prev.sameInstance

\* C2: of two sequential fetches of the same reference and headers by two
\* parser instances sharing the cache, the second, when it starts within the
\* TTL of the first's storing of the document, gets the identical raw document
\* without acquiring it from the source; when it starts a full TTL or more
\* after the first has ended, it acquires the document from the source again.
C2_CacheIdempotence ==
  FollowsCachedFetch =>
    /\ (pc = "parseStart" /\ trace.started - prev.doc < cacheTTL) =>
         /\ call.apiData = prev.doc
         /\ trace.attempts = 0
         /\ FromCache
    /\ (pc \in {"parseStart", "catch"}
          /\ trace.started - prev.end >= cacheTTL) =>
         /\ trace.attempts = 1
         /\ ~FromCache

\* a second fetch that starts later than the first stored the document, still
\* within the TTL, and is served the first's document from the cache
C2_Witness ==
  /\ FollowsCachedFetch
  /\ pc = "parseStart"
  /\ trace.started > prev.doc
  /\ trace.started - prev.doc < cacheTTL
  /\ call.apiData = prev.doc
  /\ trace.attempts = 0

\* a second fetch that starts after the TTL and has acquired the document
\* again
C2_ExpiredReached ==
  /\ FollowsCachedFetch
  /\ pc = "parseStart"
  /\ trace.started - prev.end >= cacheTTL
  /\ trace.attempts = 1
  /\ call.apiData # prev.doc

\* C3: after clearCache(url), the next fetch of that URL misses the cache in
\* both tiers and acquires the document from the source.
C3_ClearedReferenceMisses ==
  trace.wasCleared => ~FromCache

\* C4: after clearCache() has returned, no fetch is served from an entry that
\* was in the cache before the call, whatever the order of the fetch and of
\* the disk deletions that clearCache() started.
C4_ClearAllEvictsAll ==
  FromCache => ~trace.servedOld

-----------------------------------------------------------------------------
(* Properties of the parse *)

\* a call that got its raw document and was asked for strict validation
ParsedStrict ==
  /\ Done
  /\ trace.served \notin {"memo", "none"}
  /\ ~parser.skipValidation

\* strict validation first; on its failure exactly one lenient parse of the
\* same raw document, whose outcome is the outcome of the call
StrictThenLenient ==
  LET ps == trace.parses IN
  /\ Len(ps) \in 1..2
  /\ ps[1].kind = "validate"
  /\ ps[1].ok => (Len(ps) = 1 /\ result.status = "ok")
  /\ ~ps[1].ok =>
       /\ Len(ps) = 2
       /\ ps[2].kind = "parse"
       /\ ps[2].doc = ps[1].doc
       /\ ~ps[2].lite
       /\ (result.status = "ok") <=> ps[2].ok
       /\ result.status = "error" =>
            result.message = <<"Failed to fetch API", "parse failed">>

\* one lenient parse of the skeleton of the raw document and no validation
LenientLiteOnly ==
  LET ps == trace.parses IN
  /\ Len(ps) = 1
  /\ ps[1].kind = "parse"
  /\ ps[1].lite
  /\ (result.status = "ok") <=> ps[1].ok

\* C5, as stated: whenever strict validation is requested
\* (skipValidation = false), fetchApi validates strictly first and, when that
\* fails, does exactly one lenient parse of the same raw document; the call
\* succeeds when the lenient parse succeeds and fails only when it fails too,
\* and the validation error is never the error of the call.
C5_StrictThenLenientAlways ==
  ParsedStrict => StrictThenLenient

\* C5, amended: the strict-then-lenient sequence is that of eager mode
\* (lazyLoading = false): there, whenever skipValidation = false, fetchApi
\* validates strictly first and, when that fails, does exactly one lenient
\* parse of the same raw document, which decides the outcome of the call; in
\* lazy mode (the default) fetchApi never validates: it does one lenient
\* parse of the skeleton of the document, which decides the outcome.
C5_StrictThenLenientEager ==
  ParsedStrict =>
    IF parser.lazyLoading THEN LenientLiteOnly ELSE StrictThenLenient

\* an eager call whose validation failed and whose lenient parse succeeded
C5_Witness ==
  /\ ParsedStrict
  /\ ~parser.lazyLoading
  /\ Len(trace.parses) = 2
  /\ ~trace.parses[1].ok
  /\ trace.parses[2].ok
  /\ result.status = "ok"

-----------------------------------------------------------------------------
(* Properties of the progress reports *)

\* C6: within one fetchApi call the fractions given to the progress sink
\* never decrease, in the order of the reports, on every path of the call.
C6_ProgressMonotone ==
  \A i \in 1..(Len(trace.progress) - 1) :
    trace.progress[i] <= trace.progress[i + 1]

\* C7: every fetchApi call that goes past the return of the memoized model
\* ends its reports with the fraction 1.0, when it succeeds and when it fails
\* (acquisition failure or parse failure).
C7_TerminalProgress ==
  (Done /\ trace.served # "memo") =>
    /\ trace.progress # <<>>
    /\ trace.progress[Len(trace.progress)] = 100

\* a call that failed at the acquisition and ended its reports with 1.0
C7_Witness ==
  /\ Done
  /\ result.status = "error"
  /\ trace.attempts = 1
  /\ trace.served = "none"
  /\ trace.progress[Len(trace.progress)] = 100

-----------------------------------------------------------------------------
(* Properties of the failures *)

AcquireErrors == {"get failed", "read file failed"}

\* C8: when the acquisition of the primary document fails, exactly one
\* attempt was made for it (and no call ever makes more than one), the call
\* ends in a failure result carrying a message, and the steps from the
\* failure to the result leave both cache tiers as they are.
C8_AcquireFailure ==
  /\ [](/\ trace.attempts <= 1
        /\ (Done /\ trace.attempts = 1 /\ trace.served = "none") =>
             /\ result.status = "error"
             /\ result.message # <<>>
             /\ call.error \in AcquireErrors
             /\ trace.cacheWrites = 0)
  /\ [][(pc \in {"acquire", "catch"} /\ call'.error \in AcquireErrors
           /\ trace'.served = "none")
          => UNCHANGED tiers]_vars

\* a call with caching enabled whose one acquisition failed
C8_Witness ==
  /\ Done
  /\ parser.useCache
  /\ trace.attempts = 1
  /\ trace.served = "none"
  /\ result.status = "error"
  /\ call.error = "get failed"

\* C9: a failure of a cache I/O step (directory creation, stat, read or JSON
\* parse of the cache file, write of the cache file) never fails the fetch:
\* the error of a failed call is never that of the cache; after such a failure
\* the raw document of the call is the one acquired from the source in this
\* call, as with caching disabled, and a successful call returns it.
C9_CacheFailureIsMiss ==
  /\ (Done /\ result.status = "error") =>
       call.error \in AcquireErrors \cup {"parse failed"}
  /\ (trace.ioFailed /\ pc = "parseStart") =>
       /\ trace.served = "source"
       /\ trace.attempts = 1
       /\ call.apiData = trace.sourceDoc
  /\ (trace.ioFailed /\ Done /\ result.status = "ok") =>
       result.doc = trace.sourceDoc

\* a successful call whose read of the cache failed
C9_Witness ==
  /\ Done
  /\ trace.ioFailed
  /\ call.error = "cache read failed"
  /\ result.status = "ok"
  /\ result.doc = trace.sourceDoc

-----------------------------------------------------------------------------
(* Properties of the UI-URL resolution *)

\* C10: resolveSwaggerDocUrl requests each candidate URL at most once: no
\* URL is probed twice in one resolution.
C10_EachUrlProbedOnce ==
  \A i, j \in 1..Len(trace.probes) :
    i # j => trace.probes[i] # trace.probes[j]

-----------------------------------------------------------------------------
(* Properties of getSchema *)

\* what the claim says of the last getSchema call, for the names in `names`:
\* a name absent from the schema section of the raw document gives undefined
\* and leaves api.components.schemas as it was; a present name, in lazy mode
\* and when the parse of the single schema does not throw, gives the schema,
\* which is then in api.components.schemas, and a name already there is
\* returned without a parse
GetSchemaContract(names) ==
  LET l == result.schema IN
  (Done /\ l.name \in names) =>
    /\ l.name \notin RawSchemas =>
         /\ l.value = "undefined"
         /\ parser.schemas = l.before
    /\ (l.name \in RawSchemas /\ parser.lazyLoading
          /\ ~(l.parsed /\ l.value = "undefined")) =>
         /\ l.value = "schema"
         /\ l.name \in parser.schemas
         /\ l.name \in l.before => ~l.parsed

\* C11: getSchema(name) for a name absent from the raw document's schema
\* section returns undefined without raising and leaves the Schema Table
\* unchanged; for a present name in lazy mode it returns the schema and
\* stores it, and a second getSchema(name) returns it without parsing again.
C11_GetSchemaNotFound ==
  GetSchemaContract(SchemaNames)

\* the same for the names no plain object inherits from Object.prototype
C11_OwnNamesOnly ==
  GetSchemaContract(SchemaNames \ ObjectPrototype)

\* a second getSchema of a present name, answered from the table
C11_SecondLookupReached ==
  /\ Done
  /\ result.schema.name \in result.schema.before
  /\ result.schema.value = "schema"
  /\ ~result.schema.parsed

-----------------------------------------------------------------------------
(* Properties of the template manager *)

Ids(templates) == {templates[i].id : i \in 1..Len(templates)}

\* the templates a call may change
userTemplates == <<customTemplates, templateFiles, customConfig>>

\* C12: after any sequence of saveCustomTemplate and deleteCustomTemplate
\* calls the built-in templates are those loaded at initialization and no
\* custom template, in memory or in the manifest, has the id of a built-in
\* one; a save with the id of a built-in template throws "Cannot override
\* built-in template" and writes no body file, memory entry or manifest.
C12_NoBuiltInCollision ==
  /\ [](/\ builtInTemplates = BuiltIn
        /\ Ids(customTemplates) \cap Ids(builtInTemplates) = {}
        /\ Ids(customConfig) \cap Ids(builtInTemplates) = {})
  /\ [][(tmCall'.op = "save" /\ tmCall'.id \in Ids(builtInTemplates)) =>
          /\ tmCall'.status = "thrown"
          /\ tmCall'.message = "Cannot override built-in template"
          /\ UNCHANGED userTemplates]_vars

\* a save under a built-in id was rejected while custom templates exist
C12_Witness ==
  /\ tmCall.op = "save"
  /\ tmCall.id \in Ids(builtInTemplates)
  /\ tmCall.status = "thrown"
  /\ Len(customTemplates) = 2
  /\ builtInTemplates = BuiltIn

C14_ManifestMatchesMemory ==
  /\ customConfig = ConfigData(customTemplates)
  /\ \A i \in 1..Len(customConfig) :
       customConfig[i].path \in DOMAIN templateFiles

-----------------------------------------------------------------------------
(* C15: render is total: whatever the template, the context and the        *)
(* registered partials, render returns a string and does not throw; an     *)
(* undefined lookup gives the empty string, or the tag itself with         *)
(* preserveUnmatched.                                                       *)

C15_RenderTotal == rendered.status # "thrown"

\* the names a partial includes, and whether the partials of the engine
\* lead from a name back to itself
Included(name) ==
  IF name \in DOMAIN partials
    THEN {partials[name][i].arg[1] :
            i \in {j \in 1..Len(partials[name]) : partials[name][j].tag = ">"}}
    ELSE {}

IncludesItself(name) ==
  \E path \in UNION {[1..n -> PartialNames] : n \in 2..(Cardinality(PartialNames) + 1)} :
    /\ path[1] = name
    /\ path[Len(path)] = name
    /\ \A i \in 1..(Len(path) - 1) : path[i + 1] \in Included(path[i])

\* what holds of render: a call throws only when a partial includes itself,
\* and the lookups of the template of plain variables give what they should
LookupTemplate ==
  <<Variable(<<"name">>), Variable(<<"missing">>),
    Variable(<<"user", "name">>), Variable(<<"missing", "name">>)>>

C15_TotalWithoutCycle ==
  [][(rendered' # rendered /\ rendered'.status = "thrown")
       => \E name \in PartialNames : IncludesItself(name)]_vars

C15_UndefinedLookup ==
  (rendered.template = LookupTemplate /\ "user" \in DOMAIN rendered.context)
    => rendered.output =
         IF options.preserveUnmatched
           THEN <<Variable(<<"name">>), Variable(<<"missing">>), Text("deep"),
                  Variable(<<"missing", "name">>)>>
           ELSE <<Text("deep")>>

-----------------------------------------------------------------------------
(* C16: the tag {>name} of a registered partial, whatever the body of the  *)
(* partial, gives way to the rendering of that body against the context of *)
(* the including template; the tag of a name never registered gives way to *)
(* the placeholder comment, and render does not throw.                     *)

IncludeTemplate == <<Text("a"), Include("p"), Text("b")>>

IncludeRendered ==
  /\ rendered' # rendered
  /\ rendered'.template = IncludeTemplate
  /\ rendered'.status = "returned"

C16_PartialReplaced ==
  [][IncludeRendered
       => rendered'.output =
            <<Text("a")>>
              \o (IF "p" \in DOMAIN partials
                    THEN render(partials["p"], rendered'.context, MaxDepth)
                    ELSE <<NotFound(<<"p">>)>>)
              \o <<Text("b")>>]_vars

\* what holds: the same for the partials whose body is not empty
C16_NonEmptyPartialReplaced ==
  [][(IncludeRendered /\ ("p" \in DOMAIN partials => partials["p"] # <<>>))
       => rendered'.output =
            <<Text("a")>>
              \o (IF "p" \in DOMAIN partials
                    THEN render(partials["p"], rendered'.context, MaxDepth)
                    ELSE <<NotFound(<<"p">>)>>)
              \o <<Text("b")>>]_vars

-----------------------------------------------------------------------------
(* C17: a loop block {#path}body{/path} over a sequence of length n emits  *)
(* the body n times in the order of the items; in iteration i '@index' is  *)
(* i, '@first' is true only for i = 0 and '@last' only for i = n-1, and    *)
(* the fields of a mapping item shadow the outer names of the same key; a  *)
(* path that is no sequence gives empty output.                            *)

LoopTemplate ==
  <<LoopOpen(<<"items">>), Text("["), Variable(<<"@index">>),
    Variable(<<"@first">>), Variable(<<"@last">>), Variable(<<"name">>),
    Text("]"), Close(<<"items">>), Text("end")>>

NonSequenceTemplate ==
  <<LoopOpen(<<"name">>), Text("x"), Close(<<"name">>), Text("end")>>

TrueOrFalse(b) == IF b THEN Text("true") ELSE Text("false")

\* the body as the claim has it emitted for item i (from 0) of n
ExpectedBody(item, i, n, outer) ==
  <<Text("["), Text(Digits[i + 1]), TrueOrFalse(i = 0), TrueOrFalse(i = n - 1),
    Text(IF item.kind = "object" /\ "name" \in DOMAIN item.fields
           THEN item.fields["name"].text ELSE outer),
    Text("]")>>

RECURSIVE ExpectedLoop(_, _, _)
ExpectedLoop(list, i, outer) ==
  IF i >= Len(list) THEN <<>>
  ELSE ExpectedBody(list[i + 1], i, Len(list), outer)
         \o ExpectedLoop(list, i + 1, outer)

IsSequence(context, key) ==
  key \in DOMAIN context /\ context[key].kind = "array"

C17_LoopSemantics ==
  /\ rendered.template = LoopTemplate
       => /\ rendered.status = "returned"
          /\ rendered.output =
               (IF IsSequence(rendered.context, "items")
                  THEN ExpectedLoop(rendered.context["items"].items, 0,
                                    rendered.context["name"].text)
                  ELSE <<>>) \o <<Text("end")>>
  /\ rendered.template = NonSequenceTemplate
       => /\ rendered.status = "returned"
          /\ rendered.output = <<Text("end")>>

\* a loop over two items, a mapping that has the field name and a scalar,
\* has been rendered
C17_Witness ==
  /\ rendered.template = LoopTemplate
  /\ rendered.status = "returned"
  /\ IsSequence(rendered.context, "items")
  /\ Len(rendered.context["items"].items) = 2
  /\ rendered.context["items"].items[1].kind = "object"
  /\ rendered.context["items"].items[2].kind = "string"

-----------------------------------------------------------------------------
(* C18: type resolution and the collection of the schema names an          *)
(* operation reaches (getTypeFromSchema, collectSchemaTypes) terminate on  *)
(* schema graphs with reference cycles, a schema with a property that      *)
(* references its own name among them; a reference is represented by its   *)
(* name, and the collected set is exactly the set of the names reachable   *)
(* through references from the schemas of the operation.                   *)

\* the names a schema refers to, itself and in what it is made of
RECURSIVE RefsOf(_)
RefsOf(schema) ==
  (IF schema.ref # <<>> THEN {schema.ref} ELSE {})
    \cup UNION {RefsOf(schema.sub[i]) : i \in 1..Len(schema.sub)}

RECURSIVE ReachableFrom(_, _, _)
ReachableFrom(names, schemas, rounds) ==
  IF rounds = 0 THEN names
  ELSE ReachableFrom(
         names \cup UNION {RefsOf(SchemaOf(schemas, n)) : n \in names},
         schemas, rounds - 1)

ReachableNames(operations, schemas) ==
  ReachableFrom(
    UNION {RefsOf(s) : s \in UNION {
      {operations[i].parameters[k] : k \in 1..Len(operations[i].parameters)}
        \cup {operations[i].requestBody[k] :
                k \in 1..Len(operations[i].requestBody)}
        \cup {operations[i].responses[k] :
                k \in 1..Len(operations[i].responses)} :
      i \in 1..Len(operations)}},
    schemas, Len(schemas))

StackExhausted ==
  \E i \in 1..Len(generation.warnings) :
    generation.warnings[i].message = "Maximum call stack size exceeded"

GroupFileOf(name) == formatGroupName(name) \o <<".ts">>

C18_ResolutionTerminates ==
  generation.generator = "client" => ~StackExhausted

\* what holds: the type of a schema names what it references, the schema
\* that references itself included, and the set collected without a cycle is
\* the set of the reachable names
NodeFile == <<"n", "o", "d", "e", ".ts">>

C18_ReferenceByName ==
  (document = DocSelf /\ NodeFile \in DOMAIN outputFiles)
    => outputFiles[NodeFile].types =
         <<"export interface ">> \o NameNode
           \o <<" {", "p", "?: ">> \o NameNode \o <<"; ", "}">>

C18_CollectedReachable ==
  (generation.generator = "client" /\ generation.success
     /\ generation.emptyBefore /\ document # DocClash)
    => \A i \in 1..Len(groupOperations(document.operations, "tag")) :
         LET g == groupOperations(document.operations, "tag")[i]
         IN GroupFileOf(g.name) \in DOMAIN outputFiles
              => outputFiles[GroupFileOf(g.name)].imports =
                   ReachableNames(g.operations, document.schemas)

-----------------------------------------------------------------------------
(* C19: generate, of the type generator and of the client generator, never *)
(* throws: it returns success with the files written and the warnings, or  *)
(* no success with an error; the failure of one schema or one group, in    *)
(* rendering or in writing, becomes a warning and the schemas or groups    *)
(* after it are processed all the same.                                    *)

\* the files of the items: the returned files but the index and the client
\* configuration
ItemFiles ==
  {generation.files[i] :
     i \in {j \in 1..Len(generation.files) :
              /\ generation.files[j] # IndexFile
              /\ ~EndsWithClient(generation.files[j])}}

ItemFileCount ==
  Cardinality({j \in 1..Len(generation.files) :
                 /\ generation.files[j] # IndexFile
                 /\ ~EndsWithClient(generation.files[j])})

C19_GenerateReturns ==
  generation.generator # "none"
    => /\ generation.status = "returned"
       /\ generation.success => generation.error = ""
       /\ ~generation.success
            => /\ generation.files = <<>>
               /\ generation.error \in
                    {"fetch", "index", "config", "No schemas found",
                     "No API operations found"}
       /\ generation.success
            => ItemFileCount + Len(generation.warnings)
                 = Len(generation.retained)

\* the first item failed, the call succeeded and wrote the file of a later
\* item
C19_Witness ==
  /\ generation.success
  /\ generation.failed = 1
  /\ Len(generation.retained) = 2
  /\ generation.warnings # <<>>
  /\ generation.warnings[1].kind = "failed"
  /\ generation.warnings[1].about = generation.retained[1]
  /\ ItemFileCount = 1

-----------------------------------------------------------------------------
(* C20: every retained item gets a file of its own: into an empty output   *)
(* directory, a successful type generation returns one distinct file for   *)
(* each retained schema name and a successful client generation one for    *)
(* each group; two names or two groups never share or overwrite a file.    *)

C20_OneFilePerItem ==
  (generation.success /\ generation.emptyBefore /\ generation.failed = 0)
    => Cardinality(ItemFiles) = Len(generation.retained)

\* what holds: the same where the formatted names differ
FormattedNames ==
  IF generation.generator = "types"
    THEN {formatSchemaNameToFileName(generation.retained[i]) :
            i \in 1..Len(generation.retained)}
    ELSE {formatGroupName(generation.retained[i]) :
            i \in 1..Len(generation.retained)}

C20_OneFilePerFormattedName ==
  (generation.success /\ generation.emptyBefore /\ generation.failed = 0)
    => Cardinality(ItemFiles) = Cardinality(FormattedNames)

-----------------------------------------------------------------------------
(* C21: for each client style (axios, fetch, react-query), a successful    *)
(* client generation into an empty output directory that wrote the file of *)
(* a group also writes an index file and a shared client configuration     *)
(* file, and both are among the returned files.                            *)

ReturnedFiles == {generation.files[i] : i \in 1..Len(generation.files)}

WroteGroupFile ==
  /\ generation.generator = "client"
  /\ generation.success
  /\ generation.emptyBefore
  /\ ItemFileCount >= 1

C21_IndexAndConfig ==
  WroteGroupFile
    => /\ IndexFile \in ReturnedFiles \cap DOMAIN outputFiles
       /\ \E f \in ReturnedFiles \cap DOMAIN outputFiles : EndsWithClient(f)

\* what holds: the same for the styles axios and fetch
C21_IndexAndConfigAxiosFetch ==
  (WroteGroupFile /\ generation.clientType \in {"axios", "fetch"})
    => /\ IndexFile \in ReturnedFiles \cap DOMAIN outputFiles
       /\ ConfigFile(generation.clientType)
            \in ReturnedFiles \cap DOMAIN outputFiles

-----------------------------------------------------------------------------
(* C22: with overwrite false, the default, generate of either generator    *)
(* writes to no file that was in the output directory before the call:     *)
(* every such file, index.ts and the client configuration file included,   *)
(* keeps its content.                                                      *)

GenerateWithoutOverwrite ==
  \/ \E includeSchemas \in {<<>>, <<NameTag>>}, fail \in GenerateFailures,
        failAt \in 0..MaxEntries :
        TypesGenerate(includeSchemas, FALSE, fail, failAt)
  \/ \E clientType \in ClientTypes, fail \in GenerateFailures,
        failAt \in 0..MaxEntries :
        ClientGenerate(clientType, FALSE, fail, failAt)

Kept(file) ==
  file \in DOMAIN outputFiles' /\ outputFiles'[file] = outputFiles[file]

C22_ExistingFilesKept ==
  [][GenerateWithoutOverwrite => \A f \in DOMAIN outputFiles : Kept(f)]_vars

\* what holds: the same of every file but index.ts
C22_ExistingItemFilesKept ==
  [][GenerateWithoutOverwrite
       => \A f \in DOMAIN outputFiles \ {IndexFile} : Kept(f)]_vars

\* ---------------------------------------------------------------------------
\* C23: with useCache true, the second of two sequential
\* generate-api-client-optimized calls for the same reference within the cache
\* lifetime is served from the cache: it does not ask the source again
\* ---------------------------------------------------------------------------

\* the call that just returned was made with useCache and succeeded
CachedCallReturned ==
  /\ generation.status = "returned"
  /\ generation.useCache
  /\ generation.success

C23_SecondCallFromCache ==
  [][CachedCallReturned /\ generation'.useCache
       => generation'.fetches = 0]_vars

\* what the code does: the cache flag changes nothing, every call asks the
\* source
C23_EveryCallFetches ==
  generation.status = "returned" => generation.fetches = 1

\* ---------------------------------------------------------------------------
\* C24: filterSchemas returns, for a non-empty include list, exactly the
\* schema table restricted to the included names, whatever the exclude list;
\* for an exclude list alone the table minus the excluded names; for no list
\* the table itself; and the input table is as it was
\* ---------------------------------------------------------------------------

NamesIn(list) == {list[i] : i \in 1..Len(list)}
Entries(table) == {table[i] : i \in 1..Len(table)}
NoKeyTwice(table) ==
  \A i, j \in 1..Len(table) : table[i].name = table[j].name => i = j

Filtered == applied.function = "filterSchemas"

FilterAsClaimed ==
  /\ NoKeyTwice(applied.result)
  /\ applied.after = applied.schemas
  /\ applied.includeSchemas # <<>>
       => Entries(applied.result) =
            {e \in Entries(applied.schemas) :
               e.name \in NamesIn(applied.includeSchemas)}
  /\ applied.includeSchemas = <<>> /\ applied.excludeSchemas # <<>>
       => applied.result =
            SelectSeq(applied.schemas,
                      LAMBDA e : e.name \notin NamesIn(applied.excludeSchemas))
  /\ applied.includeSchemas = <<>> /\ applied.excludeSchemas = <<>>
       => applied.result = applied.schemas

C24_FilterSchemas == Filtered => FilterAsClaimed

\* the same when no listed name is one that every object inherits
C24_FilterSchemasOwnNames ==
  Filtered /\ NameConstructor \notin NamesIn(applied.includeSchemas)
    => FilterAsClaimed

\* an include list and an exclude list that share a name present in the table
C24_IncludeWinsReached ==
  /\ Filtered
  /\ \E n \in NamesIn(applied.includeSchemas)
              \cap NamesIn(applied.excludeSchemas) :
        \E e \in Entries(applied.result) : e.name = n

\* ---------------------------------------------------------------------------
\* C25: groupOperations puts an operation, by tag, in the group of each of
\* its tags and in no other (without tags: only in 'default'); by path, in
\* exactly the group of its first path segment; with 'none', all operations
\* in one group; in every mode each operation is in some group and no group
\* holds an operation that was not given
\* ---------------------------------------------------------------------------

Grouped == applied.function = "groupOperations"

GroupsHolding(operation) ==
  {applied.result[k].name :
     k \in {j \in 1..Len(applied.result) :
              \E n \in 1..Len(applied.result[j].operations) :
                 applied.result[j].operations[n] = operation}}

InputOperations == {applied.operations[i] : i \in 1..Len(applied.operations)}

GroupsAsClaimed ==
  /\ ~applied.threw
  /\ \A operation \in InputOperations :
       /\ GroupsHolding(operation) # {}
       /\ applied.groupBy = "tag" /\ operation.tags # <<>>
            => GroupsHolding(operation) = NamesIn(operation.tags)
       /\ applied.groupBy = "tag" /\ operation.tags = <<>>
            => GroupsHolding(operation) = {<<"default">>}
       /\ applied.groupBy = "path" /\ operation.path # <<>>
            => GroupsHolding(operation) = {operation.path[1]}
  /\ applied.groupBy = "none" => Len(applied.result) = 1
  /\ \A k \in 1..Len(applied.result) :
       \A n \in 1..Len(applied.result[k].operations) :
          applied.result[k].operations[n] \in InputOperations

C25_GroupOperations == Grouped => GroupsAsClaimed

\* the same when no group name is one that every object inherits
C25_GroupOperationsOwnNames ==
  Grouped /\ ~GroupThrows(applied.operations, applied.groupBy)
    => GroupsAsClaimed

\* an operation with two tags grouped by tag, one without tags among the rest
C25_TwoTagsReached ==
  /\ Grouped
  /\ applied.groupBy = "tag"
  /\ ~applied.threw
  /\ \E operation \in InputOperations : Cardinality(NamesIn(operation.tags)) = 2
  /\ \E operation \in InputOperations : operation.tags = <<>>

\* ---------------------------------------------------------------------------
\* C26: the progress sink never affects control flow: for the same inputs in
\* the same environment fetchApi returns the same document or fails alike,
\* with a sink or without one, whatever the sink does when it is called
\* ---------------------------------------------------------------------------

SameAsWithoutSink ==
  sinkCall.outcome = fetchApiWith(sinkCall.env, NoSink)

C26_SinkAdvisory == sinkCall.called => SameAsWithoutSink

\* the same for the sinks that return from every call
C26_ReturningSinkAdvisory ==
  sinkCall.called /\ sinkCall.sink.throwsAt = {} => SameAsWithoutSink

\* a call with a sink that returned, served by the source, as without a sink
C26_ReturningSinkReached ==
  /\ sinkCall.called
  /\ sinkCall.sink.present
  /\ sinkCall.sink.throwsAt = {}
  /\ sinkCall.outcome = Got("source")

\* ---------------------------------------------------------------------------
\* C27: when a fetch that missed the cache and acquired the document, with
\* caching enabled on a writable file system, returns, both tiers hold that
\* document under the key of the fetch; also when the fetch is the first use
\* of a parser whose constructor started the creation of the cache directory
\* ---------------------------------------------------------------------------

AcquiredAndReturned ==
  /\ Done
  /\ parser.useCache
  /\ trace.served = "source"

MemoryTierHolds ==
  Key \in DOMAIN cache /\ cache[Key].data = trace.sourceDoc

FileTierHolds ==
  Key \in DOMAIN cacheFiles /\ cacheFiles[Key].data = trace.sourceDoc

C27_BothTiersHold ==
  AcquiredAndReturned => MemoryTierHolds /\ FileTierHolds

\* the memory tier always holds it, and the file tier does whenever the
\* directory was there at the time of the write
C27_TiersHoldWhenDirectoryThere ==
  AcquiredAndReturned
    => MemoryTierHolds /\ (~trace.ioFailed => FileTierHolds)

\* a first fetch whose write found the directory made by the constructor
C27_DirectoryInTimeReached ==
  /\ AcquiredAndReturned
  /\ ~trace.ioFailed
  /\ FileTierHolds

\* ---------------------------------------------------------------------------
\* C28: in lazy mode the schema table of a parser only grows: a name that
\* getSchema has stored stays in the table through every later getSchema,
\* getAllSchemas and fetchApi call on that parser, fetchApi with
\* forceRefresh included
\* ---------------------------------------------------------------------------

\* a step of the instance in use, neither its construction nor its release
SameInstance == pc # "idle" /\ pc' # "idle" /\ parser.lazyLoading

C28_TableOnlyGrows ==
  [][SameInstance => parser.schemas \subseteq parser'.schemas]_vars

\* the same for the steps of getSchema and getAllSchemas and of a fetchApi
\* that is answered with the document already parsed
C28_LookupsOnlyGrow ==
  [][SameInstance /\ pc = "done" /\ pc' = "done"
       => parser.schemas \subseteq parser'.schemas]_vars

\* getAllSchemas on a lazy parser whose table held a schema stored by getSchema
C28_AllAfterOneReached ==
  /\ Done
  /\ parser.lazyLoading
  /\ result.schema.name = "*"
  /\ result.schema.before # {}
  /\ result.schema.before \subseteq parser.schemas

\* ---------------------------------------------------------------------------
\* C29: a conditional block inside a loop body is resolved once per
\* iteration against the context of that iteration's item, so its content
\* appears exactly in the iterations whose item makes the condition truthy
\* ---------------------------------------------------------------------------

\* {#items}{?@first}F{/@first}x{/items}
NestedTemplate ==
  <<LoopOpen(<<"items">>), IfOpen(<<"@first">>), Text("F"),
    Close(<<"@first">>), Text("x"), Close(<<"items">>)>>

\* the output the claim has for n items: F in the first iteration only
RECURSIVE ExpectedNested(_, _)
ExpectedNested(i, n) ==
  IF i >= n THEN <<>>
  ELSE (IF i = 0 THEN <<Text("F")>> ELSE <<>>) \o <<Text("x")>>
         \o ExpectedNested(i + 1, n)

NestedRendered ==
  /\ rendered.template = NestedTemplate
  /\ IsSequence(rendered.context, "items")

C29_ConditionalPerItem ==
  NestedRendered
    => /\ rendered.status = "returned"
       /\ rendered.output =
            ExpectedNested(0, Len(rendered.context["items"].items))

\* what render does: the conditional is resolved first, over the whole
\* template and against the outer context, which has no '@first'
C29_ConditionalAgainstOuter ==
  NestedRendered
    => /\ rendered.status = "returned"
       /\ rendered.output =
            [i \in 1..Len(rendered.context["items"].items) |-> Text("x")]

\* the nested template rendered over two items
C29_TwoItemsReached ==
  /\ NestedRendered
  /\ Len(rendered.context["items"].items) = 2

\* ---------------------------------------------------------------------------
\* C30: initialize loads each built-in and each custom template once: after
\* any number of initialize calls, one after the other or concurrent, and
\* after a call that failed part-way and was tried again, no template id is
\* twice in getAllTemplates()
\* ---------------------------------------------------------------------------

NoIdTwice(templates) ==
  \A i, j \in 1..Len(templates) : templates[i].id = templates[j].id => i = j

AllSettled == \A c \in 1..MaxCalls : ~InFlight(c)

C30_LoadedOnce == AllSettled => NoIdTwice(getAllTemplates)

\* the same for calls that ran one after the other and none of which threw
C30_LoadedOnceInSequence ==
  AllSettled /\ ~loading.overlapped /\ ~loading.thrown
    => NoIdTwice(getAllTemplates)

\* a second initialize that found the flag set and returned at once
C30_SecondCallReached ==
  /\ AllSettled
  /\ ~loading.overlapped
  /\ ~loading.thrown
  /\ loading.started >= 2
  /\ loading.initialized
  /\ Len(builtInTemplates) = Len(BuiltIn)
  /\ customTemplates # <<>>

====
